---- MODULE Spec2Model ----
(***************************************************************************)
(* Model of the Maryland child-support calculator (src/calc.ts,            *)
(* src/schedule.ts, src/shared.ts, src/addons.ts, src/multifamily.ts).     *)
(*                                                                         *)
(* Numbers.  Every JavaScript number of the program is an IEEE-754 binary  *)
(* floating-point value; each arithmetic operator computes the exact       *)
(* result and rounds it to the nearest representable value, ties to even.  *)
(* The model keeps that behaviour: a number is a record [m, e] standing    *)
(* for m * 2^e with m odd (or m = e = 0), and FAdd/FSub/FMul/FDiv round    *)
(* the exact result to MantissaBits significant bits.  The exponent range  *)
(* is not bounded (no overflow to Infinity, no subnormals), the sign of    *)
(* zero is not modelled, and NaN only arises where the web form's text is  *)
(* parsed (apps/web/server.ts, modelled after the calculator).             *)
(***************************************************************************)
EXTENDS Integers, Sequences, FiniteSets, TLC

VARIABLES schedule, call

vars == <<schedule, call>>

\* Significant bits of a number (53 in the program; a smaller width keeps
\* every intermediate integer inside TLC's 32-bit range).
MantissaBits == 10

----------------------------------------------------------------------------
(* Floating-point arithmetic of JavaScript numbers.                        *)
(* A value that the code names once and uses several times is passed on    *)
(* as an operator parameter, so that it is written (and evaluated) once.   *)

Abs(n) == IF n < 0 THEN -n ELSE n

RECURSIVE BitLen(_)
BitLen(n) == IF n = 0 THEN 0 ELSE 1 + BitLen(n \div 2)

RECURSIVE Canon(_, _)
Canon(m, e) ==
  IF m = 0 THEN [m |-> 0, e |-> 0]
  ELSE IF m % 2 = 0 THEN Canon(m \div 2, e + 1)
  ELSE [m |-> m, e |-> e]

\* keep * 2^e with rem (of half * 2) cut off below it: nearest, ties to even.
RoundKept(keep, rem, half, e, sticky) ==
  Canon(IF rem > half \/ (rem = half /\ (sticky \/ keep % 2 = 1))
          THEN keep + 1 ELSE keep,
        e)

RoundDropping(n, e, sticky, drop) ==
  IF drop <= 0 THEN Canon(n, e)
  ELSE RoundKept(n \div (2 ^ drop), n % (2 ^ drop), 2 ^ (drop - 1),
                 e + drop, sticky)

\* Round n * 2^e (n >= 0; sticky: a non-zero part below the last bit of n
\* was dropped) to MantissaBits bits.
RoundNat(n, e, sticky) == RoundDropping(n, e, sticky, BitLen(n) - MantissaBits)

WithSign(negative, r) == IF negative THEN [m |-> -(r.m), e |-> r.e] ELSE r

Round(n, e) == WithSign(n < 0, RoundNat(Abs(n), e, FALSE))

RoundQuotient(big, den, e) == RoundNat(big \div den, e, big % den # 0)

RoundShifted(num, den, e, s) == RoundQuotient(num * (2 ^ s), den, e - s)

\* Round (num / den) * 2^e for positive integers num, den.
RoundRatio(num, den, e) ==
  RoundShifted(num, den, e,
               IF BitLen(den) + MantissaBits + 2 > BitLen(num)
                 THEN BitLen(den) + MantissaBits + 2 - BitLen(num) ELSE 0)

\* A numeric literal or an integer-valued input.
F(n) == Round(n, 0)

Zero == [m |-> 0, e |-> 0]
One  == [m |-> 1, e |-> 0]
Half == [m |-> 1, e |-> -1]

IsNum(x) == DOMAIN x = {"m", "e"}

Sign(a) == IF a.m > 0 THEN 1 ELSE IF a.m < 0 THEN -1 ELSE 0

\* Position of the leading bit: 2^(Top-1) <= |a| < 2^Top.
Top(a) == a.e + BitLen(Abs(a.m))

FNeg(a) == [m |-> -(a.m), e |-> a.e]

FAbs(a) == [m |-> Abs(a.m), e |-> a.e]

CmpInt(x, y) == IF x < y THEN -1 ELSE IF x > y THEN 1 ELSE 0

CmpAligned(a, b, lo) ==
  CmpInt(Abs(a.m) * (2 ^ (a.e - lo)), Abs(b.m) * (2 ^ (b.e - lo)))

CmpTops(a, b, ta, tb) ==
  IF ta # tb THEN CmpInt(ta, tb)
  ELSE CmpAligned(a, b, IF a.e < b.e THEN a.e ELSE b.e)

CmpMag(a, b) == CmpTops(a, b, Top(a), Top(b))

Cmp(a, b) ==
  IF Sign(a) # Sign(b) THEN CmpInt(Sign(a), Sign(b))
  ELSE Sign(a) * CmpMag(a, b)

FLt(a, b) == Cmp(a, b) < 0
FLe(a, b) == Cmp(a, b) <= 0
FGt(a, b) == Cmp(a, b) > 0
FGe(a, b) == Cmp(a, b) >= 0

\* An operand more than MantissaBits + 2 binary places below the other
\* cannot change the rounded sum.
FAddAligned(a, b, gap, lo) ==
  IF gap > MantissaBits + 2 THEN a
  ELSE IF -gap > MantissaBits + 2 THEN b
  ELSE Round(a.m * (2 ^ (a.e - lo)) + b.m * (2 ^ (b.e - lo)), lo)

FAdd(a, b) ==
  IF a.m = 0 THEN b
  ELSE IF b.m = 0 THEN a
  ELSE FAddAligned(a, b, Top(a) - Top(b), IF a.e < b.e THEN a.e ELSE b.e)

FSub(a, b) == FAdd(a, FNeg(b))

FMul(a, b) == Round(a.m * b.m, a.e + b.e)

\* b # 0 at every call site of the program.
FDiv(a, b) ==
  IF a.m = 0 THEN Zero
  ELSE WithSign(Sign(a) # Sign(b),
                RoundRatio(Abs(a.m), Abs(b.m), a.e - b.e))

\* Math.max / Math.min
FMax(a, b) == IF FLt(a, b) THEN b ELSE a
FMin(a, b) == IF FLt(b, a) THEN b ELSE a

\* The literal 1e-6 = (1 / 5^6) * 2^-6.
Eps == RoundRatio(1, 15625, -6)

\* Number.prototype.toFixed(2): the integer n for which n / 100 is closest to
\* the exact value, the larger n on a tie (given here in cents).
ToFixed2(x) ==
  Sign(x) * ( IF x.e >= 0 THEN Abs(x.m) * 100 * (2 ^ (x.e))
              ELSE IF x.e <= -20 THEN 0
              ELSE (Abs(x.m) * 200 + 2 ^ (-(x.e))) \div (2 ^ (1 - x.e)) )

----------------------------------------------------------------------------
(* Values shared by the functions below *)

\* null / undefined in a position that otherwise holds a number or a record.
Null == [null |-> TRUE]

\* null in a position that otherwise holds a string.
NullTag == "null"

\* A thrown Error; it propagates through every caller (nothing catches it).
Err(msg) == [threw |-> msg]

IsErr(r) == "threw" \in DOMAIN r

\* A void function returned normally.
Ok == [ok |-> TRUE]

Merge(r, s) ==
  [k \in DOMAIN r \cup DOMAIN s |-> IF k \in DOMAIN s THEN s[k] ELSE r[k]]

----------------------------------------------------------------------------
(* src/schedule.ts *)

validateIncomesOnly(s) ==
  IF Len(s.combinedMonthlyIncome) = 0 THEN Err("Schedule has no income rows.")
  ELSE IF \E i \in 2..Len(s.combinedMonthlyIncome) :
            ~FGt(s.combinedMonthlyIncome[i], s.combinedMonthlyIncome[i - 1])
    THEN Err("combinedMonthlyIncome must be strictly ascending.")
  ELSE Ok

\* Returns Ok or the error thrown.
validateSchedule(s) ==
  IF Len(s.combinedMonthlyIncome) = 0 THEN Err("Schedule has no income rows.")
  ELSE IF \E i \in 2..Len(s.combinedMonthlyIncome) :
            ~FGt(s.combinedMonthlyIncome[i], s.combinedMonthlyIncome[i - 1])
    THEN Err("combinedMonthlyIncome must be strictly ascending.")
  ELSE IF \E k \in DOMAIN s.byChildren :
            Len(s.byChildren[k]) # Len(s.combinedMonthlyIncome)
    THEN Err("byChildren length != incomes length")
  ELSE Ok

\* The zero-based index the loop returns at: the first of hits, or `none`.
FirstIndex(hits, none) ==
  IF hits = {} THEN none
  ELSE (CHOOSE i \in hits : \A j \in hits : i <= j) - 1

ceilingIndexStrict(sortedAsc, target) ==
  FirstIndex({i \in 1..Len(sortedAsc) : FLt(target, sortedAsc[i])}, -1)

ceilingIndexClamped(sortedAsc, target) ==
  FirstIndex({i \in 1..Len(sortedAsc) : FLe(target, sortedAsc[i])},
             Len(sortedAsc) - 1)

\* Zero-based index of the first row at or above target, -1 above the top.
ceilingIndex(sortedAsc, target) ==
  FirstIndex({i \in 1..Len(sortedAsc) : FLe(target, sortedAsc[i])}, -1)

\* String(numChildren)
ChildKey(n) ==
  IF n.e >= 0 THEN ToString(n.m * (2 ^ (n.e))) ELSE "non-integer"

aboveTopThrown == Err("Combined income is above the top of the schedule.")

\* if (idx === -1) return { status: "aboveTop", amount: null, ... };
aboveTopResult ==
  [status |-> "aboveTop", amount |-> Null,
   usedRowIndex |-> Null, usedRowIncome |-> Null]

\* lookupBasicObligation from `const idx = ...` on.
lookupAtIndex(s, combinedIncome, idx, childKey) ==
  IF idx = -1 THEN aboveTopResult
  ELSE IF childKey \notin DOMAIN s.byChildren
    THEN Err("Schedule has no column for children.")
  ELSE [status |-> IF idx = 0 /\ FLe(combinedIncome, s.combinedMonthlyIncome[1])
                     THEN "atOrBelowMinimum" ELSE "ok",
        amount |-> s.byChildren[childKey][idx + 1],
        usedRowIndex |-> F(idx),
        usedRowIncome |-> s.combinedMonthlyIncome[idx + 1]]

\* lookupBasicObligation after validateSchedule(schedule) returned or threw.
lookupValidated(v, s, combinedIncome, numChildren) ==
  IF IsErr(v) THEN v
  ELSE lookupAtIndex(s, combinedIncome,
                     ceilingIndex(s.combinedMonthlyIncome, combinedIncome),
                     ChildKey(numChildren))

lookupBasicObligation(s, combinedIncome, numChildren) ==
  lookupValidated(validateSchedule(s), s, combinedIncome, numChildren)

----------------------------------------------------------------------------
(* src/addons.ts *)

totalAddOns(a) ==
  FAdd(FAdd(FAdd(FAdd(a.childcare, a.healthInsurance),
                 a.extraordinaryMedical), a.cashMedicalIVD),
       a.additionalExpenses)

\* const p2 = total - p1; return { p1, p2 };
splitRemainder(total, p1) == [p1 |-> p1, p2 |-> FSub(total, p1)]

splitByProducts(total, p1Share) ==
  [p1 |-> FMul(total, p1Share), p2 |-> FMul(total, FSub(One, p1Share))]

splitByShare(total, p1Share) == splitRemainder(total, FMul(total, p1Share))

directPayTotalForParent(dp) ==
  FAdd(FAdd(FAdd(FAdd(dp.childcare, dp.healthInsurance),
                 dp.extraordinaryMedical), dp.cashMedicalIVD),
       dp.additionalExpenses)

warningWhenShort(addOnsTotal, sum) ==
  IF FGt(FSub(addOnsTotal, sum), Eps)
    THEN [text |-> "Note: direct-pay sum != add-ons total.",
          sum |-> ToFixed2(sum), total |-> ToFixed2(addOnsTotal)]
  ELSE Null

\* directPayConsistencyWarning from `const diff = ...` on. The note is kept
\* as its two formatted figures (in cents).
warningForSum(addOnsTotal, sum) ==
  IF FGt(FAbs(FSub(sum, addOnsTotal)), Eps)
    THEN [text |-> "Note: direct-pay sum != add-ons total.",
          sum |-> ToFixed2(sum), total |-> ToFixed2(addOnsTotal)]
  ELSE Null

directPayConsistencyWarning(addOnsTotal, p1, p2) ==
  warningForSum(addOnsTotal, FAdd(p1, p2))

----------------------------------------------------------------------------
(* src/shared.ts: helpers *)

NightsPerYear == 365

adjustedBasic(basic) == FMul(basic, Round(3, -1))

\* const p2 = total - p1; return [p1 / total, p2 / total];
percentsOf(p1, total) == <<FDiv(p1, total), FDiv(FSub(total, p1), total)>>

overnightPercents(overnightsP1) ==
  percentsOf(FMax(Zero, FMin(F(NightsPerYear), overnightsP1)),
             F(NightsPerYear))

bothAtLeastFifth(pct) ==
  FGe(pct[1], FDiv(One, F(5))) /\ FGe(pct[2], FDiv(One, F(5)))

parent1AtLeastQuarter(pct) == FGe(pct[1], Round(1, -2))

\* return p1 >= 0.25 && p2 >= 0.25;
bothAtLeastQuarter(pct) ==
  FGe(pct[1], Round(1, -2)) /\ FGe(pct[2], Round(1, -2))

meetsSharedThreshold(overnightsP1) ==
  bothAtLeastQuarter(overnightPercents(overnightsP1))

----------------------------------------------------------------------------
(* src/calc.ts *)

adjustedActualIncome(p, multifamilyAllowance) ==
  FSub(FAdd(FSub(FSub(p.actualMonthly, p.preexistingSupportPaid),
                 p.alimonyPaid), p.alimonyReceived),
       multifamilyAllowance)

allowanceIgnoringCount(baseAmount, count) == FMul(Round(3, -2), baseAmount)

\* return 0.75 * baseAmount * count;
allowanceOf(baseAmount, count) == FMul(FMul(Round(3, -2), baseAmount), count)

\* multifamilyAllowance after the one-child lookup returned or threw.
allowanceFromLookup(s, count, lookup) ==
  IF IsErr(lookup) THEN lookup
  ELSE IF IsNum(lookup.amount) THEN allowanceOf(lookup.amount, count)
  ELSE IF "1" \notin DOMAIN s.byChildren \/ Len(s.byChildren["1"]) = 0
    THEN Err("Schedule missing one-child column for multifamily allowance.")
  ELSE allowanceOf(s.byChildren["1"][Len(s.byChildren["1"])], count)

\* A number, or the error thrown.
multifamilyAllowance(s, parent) ==
  IF FLe(parent.multifamilyChildrenInHome, Zero) THEN Zero
  ELSE allowanceFromLookup(s, parent.multifamilyChildrenInHome,
         lookupBasicObligation(s, parent.actualMonthly, One))

p1ShareClamped(p1AAI, combinedAAI) ==
  IF combinedAAI = Zero THEN Half
  ELSE FMax(Zero, FMin(One, FDiv(p1AAI, combinedAAI)))

\* const p1Share = combinedAAI === 0 ? 0.5 : p1AAI / combinedAAI;
p1ShareOf(p1AAI, combinedAAI) ==
  IF combinedAAI = Zero THEN Half ELSE FDiv(p1AAI, combinedAAI)

p2ShareFromIncome(p1Share, p2AAI, combinedAAI) ==
  IF combinedAAI = Zero THEN Zero ELSE FDiv(p2AAI, combinedAAI)

\* const p2Share = 1 - p1Share;
p2ShareOf(p1Share, p2AAI, combinedAAI) == FSub(One, p1Share)

\* computeBasic's return value, once p1Share and the lookup are known.
basicFromLookup(v, p1AAI, p2AAI, combinedAAI, p1Share, basicRes) ==
  IF IsErr(basicRes) THEN basicRes
  ELSE [path |-> IF v.custodyType = "SHARED" THEN "WorksheetB"
                 ELSE "WorksheetA",
        basicStatus |-> basicRes.status,
        basic |-> basicRes.amount,
        usedRowIncome |-> basicRes.usedRowIncome,
        p1AAI |-> p1AAI, p2AAI |-> p2AAI, combinedAAI |-> combinedAAI,
        p1Share |-> p1Share,
        p2Share |-> p2ShareOf(p1Share, p2AAI, combinedAAI)]

\* computeBasic from `const p1Share = ...` on.
basicFromCombined(v, s, p1AAI, p2AAI, combinedAAI) ==
  basicFromLookup(v, p1AAI, p2AAI, combinedAAI,
                  p1ShareOf(p1AAI, combinedAAI),
                  lookupBasicObligation(s, combinedAAI,
                                        v.numChildrenThisCase))

\* const combinedAAI = p1AAI + p2AAI;
basicFromAAI(v, s, p1AAI, p2AAI) ==
  basicFromCombined(v, s, p1AAI, p2AAI, FAdd(p1AAI, p2AAI))

\* computeBasic after the two multifamilyAllowance calls returned or threw.
basicFromAllowances(v, s, mfa1, mfa2) ==
  IF IsErr(mfa1) THEN mfa1
  ELSE IF IsErr(mfa2) THEN mfa2
  ELSE basicFromAAI(v, s, adjustedActualIncome(v.parent1, mfa1),
                    adjustedActualIncome(v.parent2, mfa2))

computeBasic(v, s) ==
  basicFromAllowances(v, s, multifamilyAllowance(s, v.parent1),
                      multifamilyAllowance(s, v.parent2))

custodyNeverMismatches(inputs, expected) == FALSE

\* if (inputs.custodyType !== "PRIMARY") throw ... (and its "SHARED" twins)
custodyMismatch(inputs, expected) == inputs.custodyType # expected

\* The fields computePrimaryTotals copies from computeBasic's result.
totalsCommon(base) ==
  [path |-> "WorksheetA",
   p1AAI |-> base.p1AAI, p2AAI |-> base.p2AAI,
   combinedAAI |-> base.combinedAAI,
   p1Share |-> base.p1Share, p2Share |-> base.p2Share]

\* computePrimaryTotals' return value on the regular path.
totalsFromSplit(base, addOnsTotal, totalObligation, split) ==
  Merge(totalsCommon(base),
        [advisory |-> NullTag,
         basic |-> base.basic, usedRowIncome |-> base.usedRowIncome,
         addOnsTotal |-> addOnsTotal,
         totalObligation |-> totalObligation,
         p1Obligation |-> split.p1, p2Obligation |-> split.p2])

totalsFromObligation(base, addOnsTotal, totalObligation) ==
  totalsFromSplit(base, addOnsTotal, totalObligation,
                  splitByShare(totalObligation, base.p1Share))

\* computePrimaryTotals after computeBasic and totalAddOns returned.
totalsFromBasic(base, addOnsTotal) ==
  IF IsErr(base) THEN base
  ELSE IF base.basicStatus = "aboveTop" \/ ~IsNum(base.basic)
    THEN Merge(totalsCommon(base),
               [advisory |-> "aboveTopOfSchedule",
                basic |-> Null, usedRowIncome |-> Null,
                addOnsTotal |-> addOnsTotal,
                totalObligation |-> Null, p1Obligation |-> Null,
                p2Obligation |-> Null])
  ELSE totalsFromObligation(base, addOnsTotal,
                            FAdd(base.basic, addOnsTotal))

computePrimaryTotals(inputs, s) ==
  IF custodyMismatch(inputs, "PRIMARY")
    THEN Err("computePrimaryTotals expects custodyType PRIMARY")
  ELSE totalsFromBasic(computeBasic(inputs, s), totalAddOns(inputs.addOns))

recommendedNoFloor(obligation, direct) == FSub(obligation, direct)

\* Math.max(0, obligation - direct)
recommendedAfterDirectPay(obligation, direct) ==
  FMax(Zero, FSub(obligation, direct))

AboveTopNote == [text |-> "Above top of schedule; court discretion."]

finalFromLargerAmount(inputs, t, p1Direct, p2Direct, note, p1Rec, p2Rec) ==
  Merge(t, [line7_p1DirectPay |-> p1Direct,
            line7_p2DirectPay |-> p2Direct,
            line8_p1Recommended |-> p1Rec,
            line8_p2Recommended |-> p2Rec,
            line9_recommendedOrder |-> FMax(p1Rec, p2Rec),
            note |-> note])

\* computePrimaryFinal's return value on the regular path.
finalFromRecommended(inputs, t, p1Direct, p2Direct, note, p1Rec, p2Rec) ==
  Merge(t, [line7_p1DirectPay |-> p1Direct,
            line7_p2DirectPay |-> p2Direct,
            line8_p1Recommended |-> p1Rec,
            line8_p2Recommended |-> p2Rec,
            line9_recommendedOrder |->
              IF inputs.primaryCustodian = "P1" THEN p2Rec ELSE p1Rec,
            note |-> note])

\* computePrimaryFinal from the direct-pay consistency note on.
finalFromDirectPay(inputs, t, p1Direct, p2Direct) ==
  finalFromRecommended(inputs, t, p1Direct, p2Direct,
    directPayConsistencyWarning(t.addOnsTotal, p1Direct, p2Direct),
    recommendedAfterDirectPay(
      IF IsNum(t.p1Obligation) THEN t.p1Obligation ELSE Zero, p1Direct),
    recommendedAfterDirectPay(
      IF IsNum(t.p2Obligation) THEN t.p2Obligation ELSE Zero, p2Direct))

\* computePrimaryFinal after computePrimaryTotals returned or threw.
finalFromTotals(inputs, t) ==
  IF IsErr(t) THEN t
  ELSE IF t.advisory = "aboveTopOfSchedule"
    THEN Merge(t, [line7_p1DirectPay |-> Null, line7_p2DirectPay |-> Null,
                   line8_p1Recommended |-> Null,
                   line8_p2Recommended |-> Null,
                   line9_recommendedOrder |-> Null,
                   note |-> AboveTopNote])
  ELSE finalFromDirectPay(inputs, t,
         directPayTotalForParent(inputs.directPay.parent1),
         directPayTotalForParent(inputs.directPay.parent2))

computePrimaryFinal(inputs, s) ==
  IF custodyMismatch(inputs, "PRIMARY")
    THEN Err("computePrimaryFinal expects custodyType PRIMARY")
  ELSE finalFromTotals(inputs, computePrimaryTotals(inputs, s))

adjustmentOverSeventeen(theoretical, diff) ==
  IF FLe(diff, Zero) THEN Zero
  ELSE FMul(theoretical, FDiv(diff, F(17)))

\* const diff = 110 - overnights; if (diff <= 0) return 0;
\* return theoretical * (diff / 18);
adjustmentForDiff(theoretical, diff) ==
  IF FLe(diff, Zero) THEN Zero
  ELSE FMul(theoretical, FDiv(diff, F(18)))

overnightAdjustmentAmount(theoretical, overnights) ==
  IF FGe(overnights, F(110)) THEN Zero
  ELSE IF FLt(overnights, F(92)) THEN theoretical
  ELSE adjustmentForDiff(theoretical, FSub(F(110), overnights))

custodianAlwaysParent1(p1Pct) == "P1"

\* if (p1Pct > 0.5) return "P1"; if (p1Pct < 0.5) return "P2"; return "P1";
custodianForPercent(p1Pct) ==
  IF FGt(p1Pct, Half) THEN "P1"
  ELSE IF FLt(p1Pct, Half) THEN "P2"
  ELSE "P1"

determinePrimaryCustodianFromOvernights(overnightsP1) ==
  custodianForPercent(FDiv(overnightsP1, F(NightsPerYear)))

----------------------------------------------------------------------------
(* src/shared.ts: sharedStarter *)

\* The fields every return of sharedStarter copies from computeBasic.
starterCommon(inputs, base) ==
  [usedRowIncome |-> base.usedRowIncome,
   p1AAI |-> base.p1AAI, p2AAI |-> base.p2AAI,
   combinedAAI |-> base.combinedAAI,
   p1Share |-> base.p1Share, p2Share |-> base.p2Share,
   overnightsP1 |-> inputs.overnightsParent1]

\* sharedStarter's return value on the Worksheet B path.
starterWithPercents(inputs, base, pct) ==
  Merge(starterCommon(inputs, base),
        [advisory |-> NullTag,
         redirectToWorksheetA |-> FALSE,
         basic |-> base.basic,
         adjustedBasic |-> adjustedBasic(base.basic),
         overnightPctP1 |-> pct[1],
         overnightPctP2 |-> pct[2]])

starterThresholdFirst(inputs, base) ==
  IF IsErr(base) THEN base
  ELSE IF ~meetsSharedThreshold(inputs.overnightsParent1)
    THEN Merge(starterCommon(inputs, base),
               [advisory |-> NullTag,
                redirectToWorksheetA |-> TRUE,
                basic |-> base.basic, adjustedBasic |-> Null,
                overnightPctP1 |-> Null, overnightPctP2 |-> Null])
  ELSE IF base.basicStatus = "aboveTop" \/ ~IsNum(base.basic)
    THEN Merge(starterCommon(inputs, base),
               [advisory |-> "aboveTopOfSchedule",
                redirectToWorksheetA |-> FALSE,
                basic |-> Null, adjustedBasic |-> Null,
                overnightPctP1 |-> Null, overnightPctP2 |-> Null])
  ELSE starterWithPercents(inputs, base,
                           overnightPercents(inputs.overnightsParent1))

\* sharedStarter after computeBasic returned or threw.
starterFromBasic(inputs, base) ==
  IF IsErr(base) THEN base
  ELSE IF base.basicStatus = "aboveTop" \/ ~IsNum(base.basic)
    THEN Merge(starterCommon(inputs, base),
               [advisory |-> "aboveTopOfSchedule",
                redirectToWorksheetA |-> FALSE,
                basic |-> Null, adjustedBasic |-> Null,
                overnightPctP1 |-> Null, overnightPctP2 |-> Null])
  ELSE IF ~meetsSharedThreshold(inputs.overnightsParent1)
    THEN Merge(starterCommon(inputs, base),
               [advisory |-> NullTag,
                redirectToWorksheetA |-> TRUE,
                basic |-> base.basic, adjustedBasic |-> Null,
                overnightPctP1 |-> Null, overnightPctP2 |-> Null])
  ELSE starterWithPercents(inputs, base,
                           overnightPercents(inputs.overnightsParent1))

\* The computeBasic parameter is bound to calc.ts's computeBasic, the one
\* function the program passes for it.
sharedStarter(inputs, s) ==
  IF custodyMismatch(inputs, "SHARED")
    THEN Err("sharedStarter expects custodyType SHARED")
  ELSE starterFromBasic(inputs, computeBasic(inputs, s))

----------------------------------------------------------------------------
(* src/calc.ts: Worksheet B and the orchestrator *)

uncappedAmount(recommended, primaryAmount) == recommended

\* const capped = Math.min(recommended, primaryAmount);
cappedAmount(recommended, primaryAmount) == FMin(recommended, primaryAmount)

RedirectNote(primaryCustodian) ==
  [text |-> "Shared custody threshold not met; redirected to Worksheet A.",
   custodian |-> primaryCustodian]

\* { ...inputs, custodyType: "PRIMARY", primaryCustodian }
primaryInputsFor(inputs, primaryCustodian) ==
  [inputs EXCEPT !.custodyType = "PRIMARY",
                 !.primaryCustodian = primaryCustodian]

\* The redirected return, after computePrimaryFinal returned or threw.
redirectedResult(primaryCustodian, primaryResult) ==
  IF IsErr(primaryResult) THEN primaryResult
  ELSE [kind |-> "redirected",
        primaryCustodian |-> primaryCustodian,
        primaryResult |-> primaryResult,
        note |-> RedirectNote(primaryCustodian)]

sharedRedirected(inputs, s, primaryCustodian) ==
  redirectedResult(primaryCustodian,
    computePrimaryFinal(primaryInputsFor(inputs, primaryCustodian), s))

\* const worksheet = { ... }; w holds the local constants of
\* computeSharedFinal under their own names.
sharedWorksheet(w) ==
  [line2_p1AAI |-> w.p1AAI,
   line2_p2AAI |-> w.p2AAI,
   line3_p1Share |-> w.p1Share,
   line3_p2Share |-> w.p2Share,
   line4_basic |-> w.basic,
   line5_adjustedBasic |-> w.adjustedBasic,
   line6_overnightsP1 |-> w.p1Overnights,
   line6_overnightsP2 |-> w.p2Overnights,
   line7_pctP1 |-> w.pctP1,
   line7_pctP2 |-> w.pctP2,
   line8_p1ShareAdjustedBasic |-> w.line8_p1,
   line8_p2ShareAdjustedBasic |-> w.line8_p2,
   line9_p1Theoretical |-> w.line9_p1,
   line9_p2Theoretical |-> w.line9_p2,
   line10_p1Adjustment |-> w.line10_p1,
   line10_p2Adjustment |-> w.line10_p2,
   line11_p1AfterAdjustment |-> w.line11_p1,
   line11_p2AfterAdjustment |-> w.line11_p2,
   line13_totalAddOns |-> w.addOnsTotal,
   line13_p1Share |-> w.addOnShares.p1,
   line13_p2Share |-> w.addOnShares.p2,
   line14_p1Total |-> w.line14_p1,
   line14_p2Total |-> w.line14_p2,
   line15_p1DirectPay |-> w.p1Direct,
   line15_p2DirectPay |-> w.p2Direct,
   line15_p1Recommended |-> w.line15_p1,
   line15_p2Recommended |-> w.line15_p2,
   line16_beforeCap |-> IF w.payor # NullTag THEN w.beforeCap ELSE Zero]

\* return { kind: "computed", ... };
sharedComputed(w, recommended, capApplied) ==
  [kind |-> "computed", advisory |-> NullTag, note |-> w.note,
   payor |-> w.payor, recommended |-> recommended,
   capApplied |-> capApplied, worksheet |-> sharedWorksheet(w)]

\* capApplied = { before: beforeCap, after: capped, primary: primaryAmount };
\* recommended = capped;
sharedWithCap(w, primaryAmount, capped) ==
  sharedComputed(w, capped,
                 [before |-> w.beforeCap, after |-> capped,
                  primary |-> primaryAmount])

\* Inside if (payor), after computePrimaryFinal returned or threw.
sharedAfterPrimary(w, primaryResult) ==
  IF IsErr(primaryResult) THEN primaryResult
  ELSE IF IsNum(primaryResult.line9_recommendedOrder)
    THEN sharedWithCap(w, primaryResult.line9_recommendedOrder,
           cappedAmount(w.beforeCap, primaryResult.line9_recommendedOrder))
  ELSE sharedComputed(w, w.beforeCap, Null)

sharedCapWithDesignatedCustodian(inputs, s, w) ==
  IF w.payor # NullTag
    THEN sharedAfterPrimary(w,
           computePrimaryFinal(
             primaryInputsFor(inputs, inputs.primaryCustodian), s))
  ELSE sharedComputed(w, w.beforeCap, Null)

sharedCapWithPayorAsCustodian(inputs, s, w) ==
  IF w.payor # NullTag
    THEN sharedAfterPrimary(w,
           computePrimaryFinal(primaryInputsFor(inputs, w.payor), s))
  ELSE sharedComputed(w, w.beforeCap, Null)

\* if (payor) { ... }
sharedCap(inputs, s, w) ==
  IF w.payor # NullTag
    THEN sharedAfterPrimary(w,
           computePrimaryFinal(
             primaryInputsFor(inputs, IF w.payor = "P1" THEN "P2" ELSE "P1"),
             s))
  ELSE sharedComputed(w, w.beforeCap, Null)

sharedPayorReversed(inputs, s, w) ==
  sharedCap(inputs, s,
    Merge(w, IF FGt(FAbs(w.diff), Eps)
               THEN (IF FGt(w.diff, Zero)
                       THEN [payor |-> "P2", beforeCap |-> w.diff]
                     ELSE [payor |-> "P1", beforeCap |-> FNeg(w.diff)])
             ELSE [payor |-> NullTag, beforeCap |-> Zero]))

\* if (Math.abs(diff) > 1e-6) { payor, recommended }; beforeCap = recommended
sharedPayor(inputs, s, w) ==
  sharedCap(inputs, s,
    Merge(w, IF FGt(FAbs(w.diff), Eps)
               THEN (IF FGt(w.diff, Zero)
                       THEN [payor |-> "P1", beforeCap |-> w.diff]
                     ELSE [payor |-> "P2", beforeCap |-> FNeg(w.diff)])
             ELSE [payor |-> NullTag, beforeCap |-> Zero]))

sharedDiff(inputs, s, w) ==
  sharedPayor(inputs, s,
    Merge(w, [diff |-> FSub(w.line15_p1, w.line15_p2)]))

sharedLine15(inputs, s, w) ==
  sharedDiff(inputs, s,
    Merge(w, [line15_p1 |-> recommendedAfterDirectPay(w.line14_p1, w.p1Direct),
              line15_p2 |-> recommendedAfterDirectPay(w.line14_p2,
                                                      w.p2Direct)]))

sharedLine14(inputs, s, w) ==
  sharedLine15(inputs, s,
    Merge(w, [line14_p1 |-> FAdd(w.line11_p1, w.addOnShares.p1),
              line14_p2 |-> FAdd(w.line11_p2, w.addOnShares.p2)]))

sharedLine11(inputs, s, w) ==
  sharedLine14(inputs, s,
    Merge(w, [line11_p1 |-> FMax(Zero, FSub(w.line9_p1, w.line10_p1)),
              line11_p2 |-> FMax(Zero, FSub(w.line9_p2, w.line10_p2)),
              addOnShares |-> splitByShare(w.addOnsTotal, w.p1Share),
              note |-> directPayConsistencyWarning(w.addOnsTotal, w.p1Direct,
                                                   w.p2Direct)]))

sharedLine10(inputs, s, w) ==
  sharedLine11(inputs, s,
    Merge(w, [line10_p1 |-> overnightAdjustmentAmount(w.line9_p1,
                                                      w.p1Overnights),
              line10_p2 |-> overnightAdjustmentAmount(w.line9_p2,
                                                      w.p2Overnights),
              addOnsTotal |-> totalAddOns(inputs.addOns),
              p1Direct |-> directPayTotalForParent(inputs.directPay.parent1),
              p2Direct |-> directPayTotalForParent(inputs.directPay.parent2)]))

sharedLine9OwnPercent(inputs, s, w) ==
  sharedLine10(inputs, s,
    Merge(w, [line9_p1 |-> FMul(w.line8_p1, w.pctP1),
              line9_p2 |-> FMul(w.line8_p2, w.pctP2),
              p2Overnights |-> FSub(F(NightsPerYear), w.p1Overnights)]))

sharedLine9(inputs, s, w) ==
  sharedLine10(inputs, s,
    Merge(w, [line9_p1 |-> FMul(w.line8_p1, w.pctP2),
              line9_p2 |-> FMul(w.line8_p2, w.pctP1),
              p2Overnights |-> FSub(F(NightsPerYear), w.p1Overnights)]))

sharedLine8(inputs, s, w) ==
  sharedLine9(inputs, s,
    Merge(w, [line8_p1 |-> FMul(w.adjustedBasic, w.p1Share),
              line8_p2 |-> FMul(w.adjustedBasic, w.p2Share)]))

\* computeSharedFinal after sharedStarter returned or threw.
sharedFromStarter(inputs, s, starter) ==
  IF IsErr(starter) THEN starter
  ELSE IF starter.advisory = "aboveTopOfSchedule"
    THEN [kind |-> "advisory", advisory |-> "aboveTopOfSchedule",
          worksheet |-> [line2_p1AAI |-> starter.p1AAI,
                         line2_p2AAI |-> starter.p2AAI,
                         line3_p1Share |-> starter.p1Share,
                         line3_p2Share |-> starter.p2Share]]
  ELSE IF starter.redirectToWorksheetA
    THEN sharedRedirected(inputs, s,
           determinePrimaryCustodianFromOvernights(starter.overnightsP1))
  ELSE sharedLine8(inputs, s,
         [p1AAI |-> starter.p1AAI, p2AAI |-> starter.p2AAI,
          basic |-> IF IsNum(starter.basic) THEN starter.basic ELSE Zero,
          adjustedBasic |-> IF IsNum(starter.adjustedBasic)
                              THEN starter.adjustedBasic ELSE Zero,
          p1Share |-> starter.p1Share, p2Share |-> starter.p2Share,
          pctP1 |-> IF IsNum(starter.overnightPctP1)
                      THEN starter.overnightPctP1 ELSE Zero,
          pctP2 |-> IF IsNum(starter.overnightPctP2)
                      THEN starter.overnightPctP2 ELSE Zero,
          p1Overnights |-> starter.overnightsP1])

computeSharedFinal(inputs, s) ==
  IF custodyMismatch(inputs, "SHARED")
    THEN Err("computeSharedFinal expects custodyType SHARED")
  ELSE sharedFromStarter(inputs, s, sharedStarter(inputs, s))

\* The thirteen assign(key, value) calls: a key is set only for a number.
primaryWorksheetLines(r) ==
  [line2_p1AAI |-> r.p1AAI,
   line2_p2AAI |-> r.p2AAI,
   line3_p1Share |-> r.p1Share,
   line3_p2Share |-> r.p2Share,
   line4_basic |-> r.basic,
   line5_totalObligation |-> r.totalObligation,
   line6_p1Obligation |-> r.p1Obligation,
   line6_p2Obligation |-> r.p2Obligation,
   line7_p1DirectPay |-> r.line7_p1DirectPay,
   line7_p2DirectPay |-> r.line7_p2DirectPay,
   line8_p1Recommended |-> r.line8_p1Recommended,
   line8_p2Recommended |-> r.line8_p2Recommended,
   line9_recommendedOrder |-> r.line9_recommendedOrder]

assignEveryValue(all) == [k \in DOMAIN all |-> all[k]]

\* const assign = (key, value) => { if (typeof value === "number") ... };
assignNumbers(all) == [k \in {j \in DOMAIN all : IsNum(all[j])} |-> all[k]]

primaryWorksheet(r) == assignNumbers(primaryWorksheetLines(r))

orientedUnsigned(payor, amount) ==
  IF payor = "P1" THEN amount
  ELSE IF payor = "P2" THEN amount
  ELSE Zero

orientedReversed(payor, amount) ==
  IF payor = "P1" THEN FNeg(amount)
  ELSE IF payor = "P2" THEN amount
  ELSE Zero

\* const oriented = payor === "P1" ? amount : payor === "P2" ? -amount : 0;
oriented(payor, amount) ==
  IF payor = "P1" THEN amount
  ELSE IF payor = "P2" THEN FNeg(amount)
  ELSE Zero

CapNote(primary) ==
  [text |-> "Shared result capped (primary custody equivalent).",
   primary |-> ToFixed2(primary)]

\* const payor = result.advisory === "aboveTopOfSchedule" ? null
\*             : custodian === "P1" ? "P2" : "P1";
worksheetAPayor(result, custodian) ==
  IF result.advisory = "aboveTopOfSchedule" THEN NullTag
  ELSE IF custodian = "P1" THEN "P2"
  ELSE "P1"

\* The outputs both Worksheet A branches of calculateCase build.
worksheetAOutputs(result, payor, notes, advisory) ==
  [recommendedOrderParent1PaysParent2 |->
     oriented(payor, IF IsNum(result.line9_recommendedOrder)
                       THEN result.line9_recommendedOrder ELSE Zero),
   payor |-> payor, path |-> "WorksheetA",
   worksheet |-> primaryWorksheet(result),
   notes |-> notes, advisory |-> advisory]

\* if (inputs.custodyType === "PRIMARY") { ... }
caseFromPrimary(inputs, result) ==
  IF IsErr(result) THEN result
  ELSE worksheetAOutputs(result,
         worksheetAPayor(result, inputs.primaryCustodian),
         IF result.note # Null THEN <<result.note>> ELSE <<>>,
         result.advisory)

sharedOutputsNotedWheneverCapped(shared, capChanged) ==
  [recommendedOrderParent1PaysParent2 |->
     oriented(shared.payor, shared.recommended),
   payor |-> shared.payor, path |-> "WorksheetB",
   worksheet |-> IF shared.capApplied # Null
                   THEN Merge(shared.worksheet,
                              [line16_cappedAmount |->
                                 shared.capApplied.after])
                 ELSE shared.worksheet,
   notes |-> (IF shared.note # Null THEN <<shared.note>> ELSE <<>>) \o
             (IF shared.capApplied # Null
                THEN <<CapNote(shared.capApplied.primary)>>
              ELSE <<>>),
   advisory |-> shared.advisory]

\* The shared branch's outputs, after capChanged is known.
sharedOutputs(shared, capChanged) ==
  [recommendedOrderParent1PaysParent2 |->
     oriented(shared.payor, shared.recommended),
   payor |-> shared.payor, path |-> "WorksheetB",
   worksheet |-> IF capChanged
                   THEN Merge(shared.worksheet,
                              [line16_cappedAmount |->
                                 shared.capApplied.after])
                 ELSE shared.worksheet,
   notes |-> (IF shared.note # Null THEN <<shared.note>> ELSE <<>>) \o
             (IF capChanged THEN <<CapNote(shared.capApplied.primary)>>
              ELSE <<>>),
   advisory |-> shared.advisory]

\* calculateCase after computeSharedFinal returned or threw.
caseFromShared(sharedResult) ==
  IF IsErr(sharedResult) THEN sharedResult
  ELSE IF sharedResult.kind = "redirected"
    THEN worksheetAOutputs(sharedResult.primaryResult,
           worksheetAPayor(sharedResult.primaryResult,
                           sharedResult.primaryCustodian),
           <<sharedResult.note>> \o
             (IF sharedResult.primaryResult.note # Null
                THEN <<sharedResult.primaryResult.note>> ELSE <<>>),
           "redirectedToWorksheetA")
  ELSE IF sharedResult.kind = "advisory"
    THEN [recommendedOrderParent1PaysParent2 |-> Zero,
          payor |-> NullTag, path |-> "WorksheetB",
          worksheet |-> sharedResult.worksheet,
          notes |-> <<>>, advisory |-> sharedResult.advisory]
  ELSE sharedOutputs(sharedResult,
         /\ sharedResult.capApplied # Null
         /\ sharedResult.capApplied.primary # Null
         /\ FGt(FAbs(FSub(sharedResult.capApplied.before,
                          sharedResult.capApplied.after)), Eps))

calculateCase(inputs, s) ==
  IF inputs.custodyType = "PRIMARY"
    THEN caseFromPrimary(inputs, computePrimaryFinal(inputs, s))
  ELSE caseFromShared(computeSharedFinal(inputs, s))

----------------------------------------------------------------------------
(* src/calc.ts: what a call leaves in the caller's CaseInputs object *)

inputsAssignedInPlace(inputs, primaryCustodian) ==
  [inputs EXCEPT !.custodyType = "PRIMARY",
                 !.primaryCustodian = primaryCustodian]

\* const primaryInputs = { ...inputs, custodyType: "PRIMARY",
\* primaryCustodian }: the spread builds a new object; the object the caller
\* passed keeps its fields.
inputsAfterSpread(inputs, primaryCustodian) == inputs

\* The caller's object after computeSharedFinal returned or threw: the two
\* places that build primaryInputs are the only ones that could touch it.
inputsAfterShared(inputs, sharedResult) ==
  IF IsErr(sharedResult) THEN inputs
  ELSE IF sharedResult.kind = "redirected"
    THEN inputsAfterSpread(inputs, sharedResult.primaryCustodian)
  ELSE IF sharedResult.kind = "computed" /\ sharedResult.payor # NullTag
    THEN inputsAfterSpread(inputs,
                           IF sharedResult.payor = "P1" THEN "P2" ELSE "P1")
  ELSE inputs

\* The caller's object after calculateCase returned or threw.
inputsAfterCase(inputs, s) ==
  IF inputs.custodyType = "PRIMARY" THEN inputs
  ELSE inputsAfterShared(inputs, computeSharedFinal(inputs, s))

----------------------------------------------------------------------------
(* Inputs: schedules and validated case records *)

Row(a, b, c) == <<F(a), F(b), F(c)>>

\* A table that satisfies the loader's invariants, with one- and two-child
\* columns.
ValidSchedule ==
  [combinedMonthlyIncome |-> Row(10, 20, 40),
   byChildren |-> [k \in {"1", "2"} |->
                     IF k = "1" THEN Row(2, 4, 6) ELSE Row(3, 6, 9)]]

Schedules ==
  { ValidSchedule,
    \* no two-child column
    [ValidSchedule EXCEPT !.byChildren = [k \in {"1"} |-> Row(2, 4, 6)]],
    \* no one-child column
    [ValidSchedule EXCEPT !.byChildren = [k \in {"2"} |-> Row(3, 6, 9)]],
    \* no income rows
    [combinedMonthlyIncome |-> <<>>,
     byChildren |-> [k \in {"1"} |-> <<>>]],
    \* incomes not strictly ascending
    [ValidSchedule EXCEPT !.combinedMonthlyIncome = Row(10, 10, 40)],
    \* a column shorter than the income rows
    [ValidSchedule EXCEPT !.byChildren["2"] = <<F(3), F(6)>>] }

Parent(actual, paid, inHome) ==
  [actualMonthly |-> F(actual), preexistingSupportPaid |-> F(paid),
   alimonyPaid |-> Zero, alimonyReceived |-> Zero,
   multifamilyChildrenInHome |-> F(inHome)]

\* no income; below, at and above the table's rows; support paid exceeding
\* income (negative AAI); other children in the home.
Parents ==
  { Parent(0, 0, 0), Parent(10, 0, 0), Parent(20, 0, 0), Parent(50, 0, 0),
    Parent(2, 5, 0), Parent(20, 0, 1) }

AddOnSet(childcare) ==
  [childcare |-> F(childcare), healthInsurance |-> Zero,
   extraordinaryMedical |-> Zero, cashMedicalIVD |-> Zero,
   additionalExpenses |-> Zero]

\* <<declared add-ons, Parent 1 direct pay, Parent 2 direct pay>>
Expenses == { <<0, 0, 0>>, <<3, 2, 1>>, <<3, 30, 0>>, <<0, 0, 30>> }

\* Parent 1's overnights: either side of the 25% threshold (92 and 273
\* nights), the 92-109 band of each parent and its ends, and nights outside.
Overnights == {80, 91, 92, 100, 109, 110, 200, 256, 265, 273, 274, 300}

\* calculateCase does not parse its argument: a direct caller can pass a
\* number the schema would reject. 91.5 nights is above 25% of the year.
UnvalidatedOvernights == {Round(183, -1)}

ChildCounts == {1, 2}

Cases ==
  { [numChildrenThisCase |-> F(n), custodyType |-> ct,
     primaryCustodian |-> pc, overnightsParent1 |-> o,
     parent1 |-> p1, parent2 |-> p2,
     addOns |-> AddOnSet(x[1]),
     directPay |-> [parent1 |-> AddOnSet(x[2]), parent2 |-> AddOnSet(x[3])]] :
    n \in ChildCounts, ct \in {"PRIMARY", "SHARED"}, pc \in {"P1", "P2"},
    o \in {F(k) : k \in Overnights} \cup UnvalidatedOvernights,
    p1 \in Parents, p2 \in Parents, x \in Expenses }

\* The cases the stage functions are called with directly.
StageCases ==
  { c \in Cases : /\ c.overnightsParent1 \in {F(80), F(110), F(200)}
                  /\ c.addOns.childcare = F(3) }

LookupIncomes == { F(-3), F(0), F(5), F(10), F(15), F(20), F(40), F(41) }

LookupChildCounts == {1, 2, 3}

\* Arguments of a direct multifamilyAllowance call: incomes below, at,
\* between and above the table's rows; no, one or several other children, and
\* a negative count, which only a caller that skips the schema can pass.
AllowanceParents ==
  { Parent(income, 0, inHome) :
      income \in {0, 5, 10, 15, 40, 41, 50}, inHome \in {-1, 0, 1, 2, 3} }

\* Arguments of a direct splitByShare call: whole and fractional totals.
SplitTotals ==
  { Zero, F(3), F(100), F(333), F(1001), FDiv(F(1001), F(8)),
    FDiv(F(2001), F(100)) }

\* Income shares inside [0, 1], as computeBasic produces them, and the
\* shares a negative adjusted income produces (below 0, above 1).
SplitShares ==
  { Zero, Half, One, FDiv(One, F(3)), FDiv(F(2), F(3)), FDiv(One, F(10)),
    FDiv(F(9), F(10)), FDiv(F(3), F(7)), FDiv(F(4), F(7)),
    FDiv(F(-1), F(3)), FDiv(F(4), F(3)) }

----------------------------------------------------------------------------
(* The state machine: one call at a time against the loaded schedule *)

Idle == [op |-> "idle"]

Init ==
  /\ schedule \in Schedules
  /\ call = Idle

CallLookupBasicObligation ==
  /\ call = Idle
  /\ \E income \in LookupIncomes, n \in LookupChildCounts :
       call' = [op |-> "lookupBasicObligation",
                combinedIncome |-> income, numChildren |-> F(n),
                out |-> lookupBasicObligation(schedule, income, F(n))]
  /\ UNCHANGED schedule

CallComputeBasic ==
  /\ call = Idle
  /\ \E c \in StageCases :
       call' = [op |-> "computeBasic", inputs |-> c,
                out |-> computeBasic(c, schedule)]
  /\ UNCHANGED schedule

CallComputePrimaryTotals ==
  /\ call = Idle
  /\ \E c \in StageCases :
       call' = [op |-> "computePrimaryTotals", inputs |-> c,
                out |-> computePrimaryTotals(c, schedule)]
  /\ UNCHANGED schedule

CallComputePrimaryFinal ==
  /\ call = Idle
  /\ \E c \in StageCases :
       call' = [op |-> "computePrimaryFinal", inputs |-> c,
                out |-> computePrimaryFinal(c, schedule)]
  /\ UNCHANGED schedule

CallSharedStarter ==
  /\ call = Idle
  /\ \E c \in StageCases :
       call' = [op |-> "sharedStarter", inputs |-> c,
                out |-> sharedStarter(c, schedule)]
  /\ UNCHANGED schedule

CallComputeSharedFinal ==
  /\ call = Idle
  /\ \E c \in StageCases :
       call' = [op |-> "computeSharedFinal", inputs |-> c,
                out |-> computeSharedFinal(c, schedule)]
  /\ UNCHANGED schedule

CallMeetsSharedThreshold ==
  /\ call = Idle
  /\ \E n \in 0..NightsPerYear :
       call' = [op |-> "meetsSharedThreshold", overnightsP1 |-> F(n),
                out |-> meetsSharedThreshold(F(n))]
  /\ UNCHANGED schedule

CallMultifamilyAllowance ==
  /\ call = Idle
  /\ \E parent \in AllowanceParents :
       call' = [op |-> "multifamilyAllowance", parent |-> parent,
                out |-> multifamilyAllowance(schedule, parent)]
  /\ UNCHANGED schedule

CallSplitByShare ==
  /\ call = Idle
  /\ \E total \in SplitTotals, p1Share \in SplitShares :
       call' = [op |-> "splitByShare", total |-> total, p1Share |-> p1Share,
                out |-> splitByShare(total, p1Share)]
  /\ UNCHANGED schedule

CallCalculateCase ==
  /\ call = Idle
  /\ \E c \in Cases :
       call' = [op |-> "calculateCase", inputs |-> c,
                out |-> calculateCase(c, schedule),
                inputsAfter |-> inputsAfterCase(c, schedule)]
  /\ UNCHANGED schedule

\* The caller takes the result (or the error); nothing is kept between calls.
Return ==
  /\ call # Idle
  /\ call' = Idle
  /\ UNCHANGED schedule

Next ==
  \/ CallLookupBasicObligation
  \/ CallComputeBasic
  \/ CallComputePrimaryTotals
  \/ CallComputePrimaryFinal
  \/ CallSharedStarter
  \/ CallComputeSharedFinal
  \/ CallMultifamilyAllowance
  \/ CallMeetsSharedThreshold
  \/ CallSplitByShare
  \/ CallCalculateCase
  \/ Return

Spec == Init /\ [][Next]_vars

----------------------------------------------------------------------------
(* apps/web/server.ts: the interview wizard *)

TOTAL_STEPS == 7

\* The decimal strings the requests below use, with the numbers m * 2^e they
\* denote.
Decimals ==
  ("-5" :> [m |-> -5, e |-> 0]) @@
  ("-3" :> [m |-> -3, e |-> 0]) @@
  ("0" :> [m |-> 0, e |-> 0]) @@
  ("1" :> [m |-> 1, e |-> 0]) @@
  ("2" :> [m |-> 1, e |-> 1]) @@
  ("3" :> [m |-> 3, e |-> 0]) @@
  ("4" :> [m |-> 1, e |-> 2]) @@
  ("5" :> [m |-> 5, e |-> 0]) @@
  ("6" :> [m |-> 3, e |-> 1]) @@
  ("7" :> [m |-> 7, e |-> 0]) @@
  ("8" :> [m |-> 1, e |-> 3]) @@
  ("10" :> [m |-> 5, e |-> 1]) @@
  ("20" :> [m |-> 5, e |-> 2]) @@
  ("100" :> [m |-> 25, e |-> 2]) @@
  ("200" :> [m |-> 25, e |-> 3]) @@
  ("365" :> [m |-> 365, e |-> 0]) @@
  ("400" :> [m |-> 25, e |-> 4]) @@
  ("1.5" :> [m |-> 3, e |-> -1]) @@
  ("2.5" :> [m |-> 5, e |-> -1]) @@
  ("3.5" :> [m |-> 7, e |-> -1]) @@
  ("4.5" :> [m |-> 9, e |-> -1]) @@
  ("5.5" :> [m |-> 11, e |-> -1]) @@
  ("6.5" :> [m |-> 13, e |-> -1])

\* Number(raw): 0 for a blank string, not finite for "Infinity" and for text
\* that is not a number.
NumberOf(raw) ==
  IF raw \in DOMAIN Decimals THEN Decimals[raw]
  ELSE IF raw \in {"", " "} THEN Zero
  ELSE [nan |-> TRUE]

defaultForm ==
  [parent1_name |-> "", parent2_name |-> "", courtName |-> "",
   docketNumber |-> "", preparer_name |-> "", preparer_role |-> "",
   preparer_contact |-> "",
   numChildrenThisCase |-> "1", custodyType |-> "PRIMARY",
   primaryCustodian |-> "P1", overnightsParent1 |-> "365",
   parent1_actualMonthly |-> "0", parent1_preexistingSupportPaid |-> "0",
   parent1_alimonyPaid |-> "0", parent1_alimonyReceived |-> "0",
   parent1_multifamilyChildrenInHome |-> "0",
   parent2_actualMonthly |-> "0", parent2_preexistingSupportPaid |-> "0",
   parent2_alimonyPaid |-> "0", parent2_alimonyReceived |-> "0",
   parent2_multifamilyChildrenInHome |-> "0",
   addOns_childcare |-> "0", addOns_healthInsurance |-> "0",
   addOns_extraordinaryMedical |-> "0", addOns_cashMedicalIVD |-> "0",
   addOns_additionalExpenses |-> "0",
   directPay_parent1_childcare |-> "0",
   directPay_parent1_healthInsurance |-> "0",
   directPay_parent1_extraordinaryMedical |-> "0",
   directPay_parent1_cashMedicalIVD |-> "0",
   directPay_parent1_additionalExpenses |-> "0",
   directPay_parent2_childcare |-> "0",
   directPay_parent2_healthInsurance |-> "0",
   directPay_parent2_extraordinaryMedical |-> "0",
   directPay_parent2_cashMedicalIVD |-> "0",
   directPay_parent2_additionalExpenses |-> "0"]

\* Math.trunc
trunc(x) ==
  IF x.e >= 0 THEN x
  ELSE F(Sign(x) * (Abs(x.m) \div (2 ^ (-x.e))))

\* if (raw == null || raw.trim() === "") return fallback;
\* return Number.isFinite(num) ? num : fallback;
readNumber(form, key, fallback) ==
  IF key \notin DOMAIN form THEN fallback
  ELSE IF form[key] \in {"", " "} THEN fallback
  ELSE IF IsNum(NumberOf(form[key])) THEN NumberOf(form[key])
  ELSE fallback

\* return Math.trunc(readNumber(form, key, fallback));
readInt(form, key, fallback) == trunc(readNumber(form, key, fallback))

mergeForm(base, updates) ==
  [k \in DOMAIN base \cup DOMAIN updates |->
     IF k \in DOMAIN updates THEN updates[k] ELSE base[k]]

\* Math.max(0, readNumber(form, key))
amountField(form, key) == FMax(Zero, readNumber(form, key, Zero))

parentFields(form, prefix) ==
  [actualMonthly |-> amountField(form, prefix \o "_actualMonthly"),
   preexistingSupportPaid |->
     amountField(form, prefix \o "_preexistingSupportPaid"),
   alimonyPaid |-> amountField(form, prefix \o "_alimonyPaid"),
   alimonyReceived |-> amountField(form, prefix \o "_alimonyReceived"),
   multifamilyChildrenInHome |->
     FMax(Zero, readInt(form, prefix \o "_multifamilyChildrenInHome", Zero))]

addOnFields(form, prefix) ==
  [childcare |-> amountField(form, prefix \o "_childcare"),
   healthInsurance |-> amountField(form, prefix \o "_healthInsurance"),
   extraordinaryMedical |->
     amountField(form, prefix \o "_extraordinaryMedical"),
   cashMedicalIVD |-> amountField(form, prefix \o "_cashMedicalIVD"),
   additionalExpenses |-> amountField(form, prefix \o "_additionalExpenses")]

\* const candidate: CaseInputs = { ... };
candidateOf(form) ==
  [numChildrenThisCase |->
     FMax(One, readInt(form, "numChildrenThisCase", One)),
   custodyType |-> IF form.custodyType = "SHARED" THEN "SHARED"
                   ELSE "PRIMARY",
   primaryCustodian |-> IF form.primaryCustodian = "P2" THEN "P2" ELSE "P1",
   overnightsParent1 |->
     FMin(F(365), FMax(Zero, readInt(form, "overnightsParent1", F(365)))),
   parent1 |-> parentFields(form, "parent1"),
   parent2 |-> parentFields(form, "parent2"),
   addOns |-> addOnFields(form, "addOns"),
   directPay |-> [parent1 |-> addOnFields(form, "directPay_parent1"),
                  parent2 |-> addOnFields(form, "directPay_parent2")]]

\* z.number().int()
wholeNumber(x) == x.e >= 0

parentIssues(p) ==
  (IF FGe(p.actualMonthly, Zero) THEN <<>> ELSE <<"actualMonthly">>) \o
  (IF FGe(p.preexistingSupportPaid, Zero) THEN <<>>
   ELSE <<"preexistingSupportPaid">>) \o
  (IF FGe(p.alimonyPaid, Zero) THEN <<>> ELSE <<"alimonyPaid">>) \o
  (IF FGe(p.alimonyReceived, Zero) THEN <<>> ELSE <<"alimonyReceived">>) \o
  (IF /\ wholeNumber(p.multifamilyChildrenInHome)
      /\ FGe(p.multifamilyChildrenInHome, Zero)
     THEN <<>> ELSE <<"multifamilyChildrenInHome">>)

addOnIssues(a) ==
  (IF FGe(a.childcare, Zero) THEN <<>> ELSE <<"childcare">>) \o
  (IF FGe(a.healthInsurance, Zero) THEN <<>> ELSE <<"healthInsurance">>) \o
  (IF FGe(a.extraordinaryMedical, Zero) THEN <<>>
   ELSE <<"extraordinaryMedical">>) \o
  (IF FGe(a.cashMedicalIVD, Zero) THEN <<>> ELSE <<"cashMedicalIVD">>) \o
  (IF FGe(a.additionalExpenses, Zero) THEN <<>>
   ELSE <<"additionalExpenses">>)

\* The issues CaseInputs.safeParse reports, by path.
schemaIssues(v) ==
  (IF wholeNumber(v.numChildrenThisCase) /\ FGe(v.numChildrenThisCase, One)
     THEN <<>> ELSE <<"numChildrenThisCase">>) \o
  (IF v.custodyType \in {"PRIMARY", "SHARED"} THEN <<>>
   ELSE <<"custodyType">>) \o
  (IF /\ wholeNumber(v.overnightsParent1)
      /\ FGe(v.overnightsParent1, Zero)
      /\ FLe(v.overnightsParent1, F(365))
     THEN <<>> ELSE <<"overnightsParent1">>) \o
  parentIssues(v.parent1) \o parentIssues(v.parent2) \o
  addOnIssues(v.addOns) \o
  (IF v.primaryCustodian \in {"P1", "P2"} THEN <<>>
   ELSE <<"primaryCustodian">>) \o
  addOnIssues(v.directPay.parent1) \o addOnIssues(v.directPay.parent2)

\* if (!parsed.success) return { inputs: null, errors };
\* return { inputs: parsed.data, errors };
parsedInputs(candidate, issues) ==
  IF issues # <<>> THEN [inputs |-> Null, errors |-> issues]
  ELSE [inputs |-> candidate, errors |-> <<>>]

buildInputs(form) ==
  parsedInputs(candidateOf(form), schemaIssues(candidateOf(form)))

clampStepFromBelow(step) ==
  IF ~IsNum(step) THEN One
  ELSE IF FLt(step, One) THEN One
  ELSE step

clampStep(step) ==
  IF ~IsNum(step) THEN One
  ELSE IF FLt(step, One) THEN One
  ELSE IF FGt(step, F(TOTAL_STEPS)) THEN F(TOTAL_STEPS)
  ELSE step

\* if (!value) return 1;
\* return clampStep(Number.isFinite(num) ? num : 1);
parseStep(value) ==
  IF value = NullTag \/ value = "" THEN One
  ELSE clampStep(IF IsNum(NumberOf(value)) THEN NumberOf(value) ELSE One)

\* renderPage({ form, step, result, errors }), with the request it answers;
\* calculated holds the inputs calculateCase was invoked with, if it was.
renderPage(request, form, step, result, errors, calculated) ==
  [op |-> request.method, navigate |-> request.navigate,
   currentStep |-> request.currentStep,
   form |-> form, step |-> step, result |-> result, errors |-> errors,
   calculated |-> calculated]

\* let nextStep = currentStep; if (navigate === "back") ...
nextStepFor(navigate, currentStep) ==
  IF navigate = "back" THEN clampStep(FSub(currentStep, One))
  ELSE IF navigate = "next" THEN clampStep(FAdd(currentStep, One))
  ELSE IF navigate = "calculate" THEN F(TOTAL_STEPS)
  ELSE IF navigate = "reset" THEN One
  ELSE currentStep

\* try { result = calculateCase(inputs, demoSchedule); }
\* catch (err) { errorList.push(...); }
postWithResult(request, form, nextStep, built, r) ==
  IF IsErr(r)
    THEN renderPage(request, form, nextStep, Null,
                    built.errors \o <<r.threw>>, built.inputs)
  ELSE renderPage(request, form, nextStep, r, built.errors, built.inputs)

\* const { inputs, errors: validationErrors } = buildInputs(form);
\* if (inputs) { ... }
postWithInputs(request, form, nextStep, built, s) ==
  IF built.inputs # Null
    THEN postWithResult(request, form, nextStep, built,
                        calculateCase(built.inputs, s))
  ELSE renderPage(request, form, nextStep, Null, built.errors, Null)

\* if (nextStep === TOTAL_STEPS) { ... }
postAtStep(request, form, nextStep, s) ==
  IF nextStep = F(TOTAL_STEPS)
    THEN postWithInputs(request, form, nextStep, buildInputs(form), s)
  ELSE renderPage(request, form, nextStep, Null, <<>>, Null)

\* if (method === "POST" && isWizardRoute): params holds the fields other
\* than currentStep and navigate.
handlePost(navigate, currentStep, params, s) ==
  postAtStep([method |-> "POST", navigate |-> navigate,
              currentStep |-> currentStep],
             IF navigate # "reset" THEN mergeForm(defaultForm, params)
             ELSE defaultForm,
             nextStepFor(navigate, parseStep(currentStep)), s)

(* Requests *)

\* export const demoSchedule: the table the server calculates with.
demoSchedule == ValidSchedule

\* The step a request can name: absent, empty, not a number, not finite,
\* below, inside, between and above the steps.
SubmittedSteps ==
  { NullTag, "", "abc", "Infinity", "-3", "0", "1", "2", "3", "4", "5", "6",
    "7", "8", "100", "2.5", "6.5" }

\* What the user changes on a page before submitting it (or nothing).
Edits ==
  { [k \in {} |-> ""],
    [custodyType |-> "SHARED", overnightsParent1 |-> "200"],
    [parent1_actualMonthly |-> "20", parent2_actualMonthly |-> "10"],
    [numChildrenThisCase |-> "abc", overnightsParent1 |-> "400"],
    [numChildrenThisCase |-> "2.5", parent1_actualMonthly |-> "-5"],
    [custodyType |-> "JOINT", primaryCustodian |-> "P2",
     overnightsParent1 |-> " "] }

\* The currentStep a POST carries: the hidden input `${step}` of the page on
\* screen, or anything at all when the request does not come from a page.
StepsToSubmit ==
  IF call # Idle
    THEN {raw \in DOMAIN Decimals : Decimals[raw] = call.step}
  ELSE SubmittedSteps

\* The fields a POST carries: those of the page on screen, edited.
FormsToSubmit ==
  IF call # Idle THEN {mergeForm(call.form, e) : e \in Edits} ELSE Edits

WizardInit ==
  /\ schedule = demoSchedule
  /\ call = Idle

\* if (method === "GET" && isWizardRoute)
Get ==
  /\ \E stepParam \in SubmittedSteps :
       call' = renderPage([method |-> "GET", navigate |-> NullTag,
                           currentStep |-> stepParam],
                          defaultForm, parseStep(stepParam), Null, <<>>, Null)
  /\ UNCHANGED schedule

PostBack ==
  /\ \E currentStep \in StepsToSubmit, params \in FormsToSubmit :
       call' = handlePost("back", currentStep, params, schedule)
  /\ UNCHANGED schedule

PostNext ==
  /\ \E currentStep \in StepsToSubmit, params \in FormsToSubmit :
       call' = handlePost("next", currentStep, params, schedule)
  /\ UNCHANGED schedule

PostCalculate ==
  /\ \E currentStep \in StepsToSubmit, params \in FormsToSubmit :
       call' = handlePost("calculate", currentStep, params, schedule)
  /\ UNCHANGED schedule

PostReset ==
  /\ \E currentStep \in StepsToSubmit, params \in FormsToSubmit :
       call' = handlePost("reset", currentStep, params, schedule)
  /\ UNCHANGED schedule

WizardNext ==
  \/ Get
  \/ PostBack
  \/ PostNext
  \/ PostCalculate
  \/ PostReset

WizardSpec == WizardInit /\ [][WizardNext]_vars

----------------------------------------------------------------------------
(* Properties *)

Amount(out) == out.recommendedOrderParent1PaysParent2

\* calculateCase returned a result (it did not throw).
CaseReturned == call.op = "calculateCase" /\ ~IsErr(call.out)

\* The table invariants of the data model, stated on the table itself.
WellFormed(s) ==
  LET incomes == s.combinedMonthlyIncome IN
  /\ Len(incomes) > 0
  /\ \A i, j \in 1..Len(incomes) : i < j => FLt(incomes[i], incomes[j])
  /\ \A k \in DOMAIN s.byChildren : Len(s.byChildren[k]) = Len(incomes)

HasColumn(s, numChildren) == ChildKey(numChildren) \in DOMAIN s.byChildren

AsPrimary(inputs, custodian) ==
  [inputs EXCEPT !.custodyType = "PRIMARY", !.primaryCustodian = custodian]

Other(parent) == IF parent = "P1" THEN "P2" ELSE "P1"

\* C1: cap invariant. Whenever calculateCase returns the computed Worksheet B
\* outcome of a SHARED case with a payor, the magnitude of the amount is at
\* most line9_recommendedOrder of computePrimaryFinal on the same case taken
\* as PRIMARY with the non-payor as primary custodian.
C1_CapInvariant ==
  ( /\ CaseReturned
    /\ call.inputs.custodyType = "SHARED"
    /\ call.out.path = "WorksheetB"
    /\ call.out.advisory = NullTag
    /\ call.out.payor # NullTag )
  => LET primary == computePrimaryFinal(
                      AsPrimary(call.inputs, Other(call.out.payor)), schedule)
     IN /\ ~IsErr(primary)
        /\ IsNum(primary.line9_recommendedOrder)
        /\ FLe(FAbs(Amount(call.out)), primary.line9_recommendedOrder)

\* A computed shared result whose pre-cap amount was above the primary amount.
C1_Witness ==
  /\ CaseReturned
  /\ call.inputs.custodyType = "SHARED"
  /\ call.out.path = "WorksheetB"
  /\ call.out.payor # NullTag
  /\ "line16_cappedAmount" \in DOMAIN call.out.worksheet
  /\ FLt(FAbs(Amount(call.out)), call.out.worksheet.line16_beforeCap)

RecommendedKeys(path) ==
  IF path = "WorksheetA" THEN {"line8_p1Recommended", "line8_p2Recommended"}
  ELSE {"line15_p1Recommended", "line15_p2Recommended"}

\* C2: floor invariant. Every non-advisory result carries both per-parent
\* recommended amounts of its worksheet, and each of them is >= 0.
C2_FloorInvariant ==
  (CaseReturned /\ call.out.advisory # "aboveTopOfSchedule")
  => /\ RecommendedKeys(call.out.path) \subseteq DOMAIN call.out.worksheet
     /\ \A k \in RecommendedKeys(call.out.path) :
          FGe(call.out.worksheet[k], Zero)

\* A parent's direct pay exceeds that parent's gross obligation, and the
\* recommended amount is 0.
C2_Witness ==
  /\ CaseReturned
  /\ call.out.path = "WorksheetA"
  /\ call.out.advisory = NullTag
  /\ FGt(call.out.worksheet.line7_p1DirectPay,
         call.out.worksheet.line6_p1Obligation)
  /\ call.out.worksheet.line8_p1Recommended = Zero

\* C3 as stated: the amount is > 0 exactly when the payor is P1, < 0 exactly
\* when the payor is P2, and 0 exactly when there is no payor.
C3_SignIffPayor ==
  CaseReturned
  => /\ FGt(Amount(call.out), Zero) <=> call.out.payor = "P1"
     /\ FLt(Amount(call.out), Zero) <=> call.out.payor = "P2"
     /\ Amount(call.out) = Zero <=> call.out.payor = NullTag

\* C3 as amended: a positive amount has payor P1, a negative amount has
\* payor P2, and no payor means amount 0 (a named payor may owe 0).
C3_SignFollowsPayor ==
  CaseReturned
  => /\ call.out.payor \in {"P1", "P2", NullTag}
     /\ FGt(Amount(call.out), Zero) => call.out.payor = "P1"
     /\ FLt(Amount(call.out), Zero) => call.out.payor = "P2"
     /\ call.out.payor = NullTag => Amount(call.out) = Zero

\* A computed shared result in which Parent 2 pays.
C3_Witness ==
  /\ CaseReturned
  /\ call.out.path = "WorksheetB"
  /\ call.out.payor = "P2"
  /\ FLt(Amount(call.out), Zero)

TopIncome(s) == s.combinedMonthlyIncome[Len(s.combinedMonthlyIncome)]

\* Combined AAI is defined and above the table's highest breakpoint.
AboveTop(inputs, s) ==
  LET base == computeBasic(inputs, s)
  IN ~IsErr(base) /\ FGt(base.combinedAAI, TopIncome(s))

IncomeKeys == {"line2_p1AAI", "line2_p2AAI", "line3_p1Share", "line3_p2Share"}

\* C4: above the top of the schedule calculateCase returns amount 0, no
\* payor and advisory aboveTopOfSchedule, and the worksheet map holds the
\* income lines only: no basic, obligation, recommended or order figure.
C4_NoAmountAboveTop ==
  (call.op = "calculateCase" /\ AboveTop(call.inputs, schedule))
  => /\ ~IsErr(call.out)
     /\ Amount(call.out) = Zero
     /\ call.out.payor = NullTag
     /\ call.out.advisory = "aboveTopOfSchedule"
     /\ DOMAIN call.out.worksheet \subseteq IncomeKeys

\* A shared case above the top of a well-formed table.
C4_Witness ==
  /\ call.op = "calculateCase"
  /\ call.inputs.custodyType = "SHARED"
  /\ WellFormed(schedule)
  /\ AboveTop(call.inputs, schedule)
  /\ ~IsErr(call.out)
  /\ call.out.advisory = "aboveTopOfSchedule"

\* C5: next-higher-row lookup. On a well-formed table with a column for the
\* child count the lookup uses the row with the smallest breakpoint >= the
\* income and returns that column's amount there; above every breakpoint it
\* returns aboveTop with null amount, index and income.
C5_NextHigherRow ==
  ( /\ call.op = "lookupBasicObligation"
    /\ WellFormed(schedule)
    /\ HasColumn(schedule, call.numChildren) )
  => LET incomes == schedule.combinedMonthlyIncome
         col == schedule.byChildren[ChildKey(call.numChildren)]
         x == call.combinedIncome
         out == call.out
     IN IF \A i \in 1..Len(incomes) : FLt(incomes[i], x)
          THEN out = [status |-> "aboveTop", amount |-> Null,
                      usedRowIndex |-> Null, usedRowIncome |-> Null]
        ELSE /\ ~IsErr(out)
             /\ out.status \in {"ok", "atOrBelowMinimum"}
             /\ \E i \in 1..Len(incomes) :
                  /\ out.usedRowIndex = F(i - 1)
                  /\ out.usedRowIncome = incomes[i]
                  /\ out.amount = col[i]
                  /\ FLe(x, incomes[i])
                  /\ \A j \in 1..Len(incomes) :
                       FLe(x, incomes[j]) => FLe(incomes[i], incomes[j])

\* An income strictly between two breakpoints took the higher row.
C5_Witness ==
  /\ call.op = "lookupBasicObligation"
  /\ WellFormed(schedule)
  /\ ~IsErr(call.out)
  /\ call.out.status = "ok"
  /\ FLt(call.combinedIncome, call.out.usedRowIncome)
  /\ \E i \in 1..Len(schedule.combinedMonthlyIncome) :
       FLt(schedule.combinedMonthlyIncome[i], call.combinedIncome)

\* C6: table validation on every call. Whatever the income and child count,
\* the lookup throws when the table has no income rows, incomes that are not
\* strictly ascending, or a column whose length differs from the row count.
C6_InvalidTableFails ==
  (call.op = "lookupBasicObligation" /\ ~WellFormed(schedule))
  => IsErr(call.out)

\* The defect is in a column other than the requested one, and the income is
\* above the top row.
C6_Witness ==
  /\ call.op = "lookupBasicObligation"
  /\ Len(schedule.combinedMonthlyIncome) > 0
  /\ \E k \in DOMAIN schedule.byChildren :
       /\ k # ChildKey(call.numChildren)
       /\ Len(schedule.byChildren[k]) # Len(schedule.combinedMonthlyIncome)
  /\ FGt(call.combinedIncome, TopIncome(schedule))
  /\ IsErr(call.out)

\* C7: unsupported child count. On a well-formed table without a column for
\* the requested child count the lookup throws the no-column error for every
\* income.
C7_UnsupportedChildCountFails ==
  ( /\ call.op = "lookupBasicObligation"
    /\ WellFormed(schedule)
    /\ ~HasColumn(schedule, call.numChildren) )
  => call.out = Err("Schedule has no column for children.")

ExpectedCustody(op) ==
  IF op \in {"computePrimaryTotals", "computePrimaryFinal"} THEN "PRIMARY"
  ELSE "SHARED"

CustodyError(op) ==
  IF op = "computePrimaryTotals"
    THEN Err("computePrimaryTotals expects custodyType PRIMARY")
  ELSE IF op = "computePrimaryFinal"
    THEN Err("computePrimaryFinal expects custodyType PRIMARY")
  ELSE IF op = "sharedStarter"
    THEN Err("sharedStarter expects custodyType SHARED")
  ELSE Err("computeSharedFinal expects custodyType SHARED")

StageOps ==
  {"computePrimaryTotals", "computePrimaryFinal", "sharedStarter",
   "computeSharedFinal"}

\* C8: custody-type mismatch. Each of the four stage functions, called with
\* a case of the other custody type, throws its own custody error and
\* returns no result.
C8_CustodyMismatchThrows ==
  (call.op \in StageOps /\ call.inputs.custodyType # ExpectedCustody(call.op))
  => call.out = CustodyError(call.op)

\* sharedStarter was called with a PRIMARY case on a well-formed table.
C8_Witness ==
  /\ call.op = "sharedStarter"
  /\ call.inputs.custodyType = "PRIMARY"
  /\ WellFormed(schedule)
  /\ IsErr(call.out)

HasNote(out, text) == \E i \in 1..Len(out.notes) : out.notes[i].text = text

\* C9: policy conditions are data. On a well-formed table with a column for
\* the case's child count and a one-child column calculateCase returns a
\* result; above-top shows as the advisory tag, a failed shared threshold as
\* the redirect tag and note.
C9_PolicyIsData ==
  ( /\ call.op = "calculateCase"
    /\ WellFormed(schedule)
    /\ HasColumn(schedule, call.inputs.numChildrenThisCase)
    /\ HasColumn(schedule, One) )
  => /\ ~IsErr(call.out)
     /\ call.out.advisory \in
          {NullTag, "aboveTopOfSchedule", "redirectedToWorksheetA"}
     /\ AboveTop(call.inputs, schedule)
          <=> call.out.advisory = "aboveTopOfSchedule"
     /\ ( /\ call.inputs.custodyType = "SHARED"
          /\ ~AboveTop(call.inputs, schedule)
          /\ ~meetsSharedThreshold(call.inputs.overnightsParent1) )
          <=> call.out.advisory = "redirectedToWorksheetA"
     /\ call.out.advisory = "redirectedToWorksheetA"
          => HasNote(call.out,
               "Shared custody threshold not met; redirected to Worksheet A.")

\* A redirected case whose direct payments do not match the add-ons: both
\* conditions are reported as notes of a returned result.
C9_Witness ==
  /\ CaseReturned
  /\ call.out.advisory = "redirectedToWorksheetA"
  /\ Len(call.out.notes) = 2
  /\ HasNote(call.out, "Note: direct-pay sum != add-ons total.")

\* C10 as stated: p1Share + p2Share = 1 exactly for every valid input.
C10_SharesSumToOne ==
  (call.op = "computeBasic" /\ ~IsErr(call.out))
  => FAdd(call.out.p1Share, call.out.p2Share) = One

\* C10 as amended: p1Share + p2Share = 1 exactly whenever p1Share lies in
\* [0, 1] (both AAIs of the same sign, or combined AAI zero).
C10_SharesSumToOneInUnitRange ==
  ( /\ call.op = "computeBasic"
    /\ ~IsErr(call.out)
    /\ FGe(call.out.p1Share, Zero)
    /\ FLe(call.out.p1Share, One) )
  => FAdd(call.out.p1Share, call.out.p2Share) = One

\* A share strictly inside (0, 1) that is not a dyadic fraction of few bits.
C10_Witness ==
  /\ call.op = "computeBasic"
  /\ ~IsErr(call.out)
  /\ FGt(call.out.p1Share, Zero)
  /\ FLt(call.out.p1Share, One)
  /\ call.out.p1Share.e < -5
  /\ FAdd(call.out.p1Share, call.out.p2Share) = One

----------------------------------------------------------------------------
(* Exact comparison of numbers, for the properties below *)

MinOf(S) == CHOOSE x \in S : \A y \in S : x <= y

\* x as an integer number of units 2^q (q at most x.e).
Units(x, q) == x.m * (2 ^ (x.e - q))

\* Half a unit in the last place of x, in units 2^q; 0 for x = 0.
HalfUlp(x, q) == IF x.m = 0 THEN 0 ELSE 2 ^ (Top(x) - MantissaBits - 1 - q)

SplitReturned == call.op = "splitByShare"

SplitSum == FAdd(call.out.p1, call.out.p2)

\* A unit small enough to express every quantity of the split exactly.
SplitUnit ==
  MinOf({ call.total.e, call.out.p1.e, call.out.p2.e, SplitSum.e,
          Top(call.out.p2) - MantissaBits - 1,
          Top(SplitSum) - MantissaBits - 1 })

\* C11 (as stated): splitByShare returns p1 = total x p1Share and
\* p2 = total - p1, and p1 + p2 equals total exactly.
C11_SplitSumsExactly ==
  SplitReturned =>
    /\ call.out.p1 = FMul(call.total, call.p1Share)
    /\ call.out.p2 = FSub(call.total, call.out.p1)
    /\ SplitSum = call.total

\* C11 (amended): p1 = total x p1Share and p2 = total - p1, each rounded
\* once; p1 + p2 equals total exactly whenever p1 lies between total / 2 and
\* 2 x total (the subtraction is then exact), and otherwise differs from total
\* by at most half a unit in the last place of p2 plus half a unit in the
\* last place of the sum.
C11_SplitSumsWithinRounding ==
  SplitReturned =>
    /\ call.out.p1 = FMul(call.total, call.p1Share)
    /\ call.out.p2 = FSub(call.total, call.out.p1)
    /\ (FLe(FMul(Half, call.total), call.out.p1)
          /\ FLe(call.out.p1, FMul(F(2), call.total)))
         => SplitSum = call.total
    /\ Abs(Units(SplitSum, SplitUnit) - Units(call.total, SplitUnit))
         <= HalfUlp(call.out.p2, SplitUnit) + HalfUlp(SplitSum, SplitUnit)

\* A split whose remainder had to be rounded, and one above half the total
\* whose parts sum exactly.
C11_Witness ==
  /\ SplitReturned
  /\ call.total = F(1001)
  /\ call.p1Share = FDiv(F(2), F(3))
  /\ call.out.p1 # Zero /\ call.out.p2 # Zero
  /\ SplitSum = call.total

----------------------------------------------------------------------------
(* Worksheet A orders *)

PrimaryCaseReturned == CaseReturned /\ call.inputs.custodyType = "PRIMARY"

Line8Key(parent) ==
  IF parent = "P1" THEN "line8_p1Recommended" ELSE "line8_p2Recommended"

\* C12: for every non-advisory PRIMARY case the payor is the parent who is
\* not primaryCustodian and the magnitude of the amount is that parent's
\* line-8 amount, max(0, gross obligation - direct pay), whichever parent's
\* line-8 amount is larger; for an advisory PRIMARY case there is no payor and
\* the amount is 0.
C12_OrderFollowsCustody ==
  PrimaryCaseReturned =>
    IF call.out.advisory = "aboveTopOfSchedule"
      THEN call.out.payor = NullTag /\ Amount(call.out) = Zero
    ELSE
      /\ call.out.advisory = NullTag
      /\ call.out.path = "WorksheetA"
      /\ call.out.payor = Other(call.inputs.primaryCustodian)
      /\ FAbs(Amount(call.out)) = call.out.worksheet[Line8Key(call.out.payor)]
      /\ call.out.worksheet.line8_p1Recommended
           = FMax(Zero, FSub(call.out.worksheet.line6_p1Obligation,
                             call.out.worksheet.line7_p1DirectPay))
      /\ call.out.worksheet.line8_p2Recommended
           = FMax(Zero, FSub(call.out.worksheet.line6_p2Obligation,
                             call.out.worksheet.line7_p2DirectPay))

\* The custodial parent's line-8 amount is the larger one, and the other
\* parent is still the payor.
C12_Witness ==
  /\ PrimaryCaseReturned
  /\ call.out.advisory = NullTag
  /\ call.inputs.primaryCustodian = "P1"
  /\ call.out.payor = "P2"
  /\ FGt(call.out.worksheet.line8_p1Recommended,
         call.out.worksheet.line8_p2Recommended)
  /\ FGt(call.out.worksheet.line8_p2Recommended, Zero)
  /\ Amount(call.out) = FNeg(call.out.worksheet.line8_p2Recommended)

----------------------------------------------------------------------------
(* The shared-custody threshold *)

\* The integer an integer-valued number stands for.
IntValue(x) == x.m * (2 ^ (x.e))

IsInteger(x) == x.e >= 0

\* A validated overnight count: an integer in 0..365.
ValidOvernights(x) == IsInteger(x) /\ IntValue(x) \in 0..NightsPerYear

ThresholdReturned == call.op = "meetsSharedThreshold"

\* A SHARED case with validated overnights returned below the schedule top.
SharedBelowTopReturned ==
  /\ CaseReturned
  /\ call.inputs.custodyType = "SHARED"
  /\ ValidOvernights(call.inputs.overnightsParent1)
  /\ call.out.advisory # "aboveTopOfSchedule"

\* C13: meetsSharedThreshold(overnightsP1) is true exactly when both
\* parents' shares of the 365 nights are at least 25%, which for integer
\* overnights in 0..365 is exactly 92 <= overnightsP1 <= 273; and a SHARED
\* case below the top of the schedule is redirected to Worksheet A exactly
\* when that condition is false.
C13_SharedThreshold ==
  /\ ThresholdReturned =>
       /\ call.out <=> ( /\ 4 * IntValue(call.overnightsP1) >= NightsPerYear
                         /\ 4 * (NightsPerYear - IntValue(call.overnightsP1))
                              >= NightsPerYear )
       /\ call.out <=> IntValue(call.overnightsP1) \in 92..273
  /\ SharedBelowTopReturned =>
       ( call.out.advisory = "redirectedToWorksheetA"
         <=> IntValue(call.inputs.overnightsParent1) \notin 92..273 )

\* 274 nights with Parent 1 leave Parent 2 91 nights: redirected.
C13_Witness ==
  /\ SharedBelowTopReturned
  /\ call.inputs.overnightsParent1 = F(274)
  /\ call.out.advisory = "redirectedToWorksheetA"
  /\ call.out.path = "WorksheetA"

----------------------------------------------------------------------------
(* Redirection to Worksheet A *)

\* The parent with more of the 365 nights, Parent 1 on a tie.
MoreOvernights(overnightsP1) ==
  IF 2 * IntValue(overnightsP1) >= NightsPerYear THEN "P1" ELSE "P2"

RedirectedReturned ==
  /\ SharedBelowTopReturned
  /\ IntValue(call.inputs.overnightsParent1) \notin 92..273

\* C14: for every SHARED case below the schedule top that does not meet the
\* shared threshold, calculateCase returns the amount, payor, path
\* (WorksheetA) and worksheet map of calculateCase on the same case taken as
\* PRIMARY with the parent with more overnights as primary custodian; the two
\* results differ only in the advisory tag redirectedToWorksheetA and in the
\* redirect note, which names that custodian and comes first.
C14_RedirectEquivalence ==
  RedirectedReturned =>
    LET custodian == MoreOvernights(call.inputs.overnightsParent1)
        primary == calculateCase(AsPrimary(call.inputs, custodian), schedule)
    IN /\ ~IsErr(primary)
       /\ Amount(call.out) = Amount(primary)
       /\ call.out.payor = primary.payor
       /\ call.out.path = "WorksheetA"
       /\ call.out.path = primary.path
       /\ call.out.worksheet = primary.worksheet
       /\ call.out.advisory = "redirectedToWorksheetA"
       /\ primary.advisory = NullTag
       /\ call.out.notes = <<RedirectNote(custodian)>> \o primary.notes

\* 80 nights with Parent 1: Parent 2 is taken as custodian and Parent 1 pays.
C14_Witness ==
  /\ RedirectedReturned
  /\ call.inputs.overnightsParent1 = F(80)
  /\ call.inputs.primaryCustodian = "P1"
  /\ call.out.payor = "P1"
  /\ FGt(Amount(call.out), Zero)
  /\ call.out.notes[1] = RedirectNote("P2")

----------------------------------------------------------------------------
(* The multifamily allowance *)

AllowanceReturned == call.op = "multifamilyAllowance"

\* The one-child amount at the first row whose income is at or above
\* `income`, and the last one-child amount when no row is.
OneChildBase(s, income) ==
  LET incomes == s.combinedMonthlyIncome
      column == s.byChildren["1"]
      atOrAbove == {i \in 1..Len(incomes) :
                      IntValue(income) <= IntValue(incomes[i])}
  IN IF atOrAbove = {} THEN column[Len(column)]
     ELSE column[MinOf(atOrAbove)]

\* C15: multifamilyAllowance(table, parent) returns 0 when
\* multifamilyChildrenInHome <= 0; otherwise it returns
\* 0.75 x base x multifamilyChildrenInHome, where base is the one-child amount
\* at the next-higher row for the parent's own actualMonthly income, or the
\* last one-child amount when that income is above the top of the table; with
\* a positive count it fails if the table has no one-child column.
C15_MultifamilyAllowance ==
  AllowanceReturned =>
    LET count == call.parent.multifamilyChildrenInHome IN
    /\ FLe(count, Zero) => call.out = Zero
    /\ (FGt(count, Zero) /\ ~HasColumn(schedule, One)) => IsErr(call.out)
    /\ (FGt(count, Zero) /\ HasColumn(schedule, One) /\ WellFormed(schedule))
         => call.out =
              FMul(FMul(Round(3, -2),
                        OneChildBase(schedule, call.parent.actualMonthly)),
                   count)

\* Two other children and an income above the top row of the table: the
\* last one-child amount (6) is the base.
C15_Witness ==
  /\ AllowanceReturned
  /\ schedule = ValidSchedule
  /\ call.parent.actualMonthly = F(41)
  /\ call.parent.multifamilyChildrenInHome = F(2)
  /\ call.out = F(9)

----------------------------------------------------------------------------
(* Purity *)

CaseCalled == call.op = "calculateCase"

----------------------------------------------------------------------------
(* Worksheet B lines *)

\* calculateCase returned the computed Worksheet B outcome.
ComputedReturned ==
  /\ CaseReturned
  /\ call.out.path = "WorksheetB"
  /\ call.out.advisory = NullTag

\* C17: in every computed Worksheet B outcome, adjusted basic is 1.5 x
\* basic, each parent's line 8 is adjusted basic x that parent's income share,
\* and each parent's line 9 is that parent's line 8 x the other parent's
\* overnight percentage, the percentages being overnightsP1 / 365 and
\* (365 - overnightsP1) / 365.
C17_TheoreticalObligations ==
  ComputedReturned =>
    LET w == call.out.worksheet
        nights == call.inputs.overnightsParent1
    IN /\ w.line5_adjustedBasic = FMul(Round(3, -1), w.line4_basic)
       /\ w.line7_pctP1 = FDiv(nights, F(NightsPerYear))
       /\ w.line7_pctP2 = FDiv(FSub(F(NightsPerYear), nights),
                               F(NightsPerYear))
       /\ w.line8_p1ShareAdjustedBasic
            = FMul(w.line5_adjustedBasic, w.line3_p1Share)
       /\ w.line8_p2ShareAdjustedBasic
            = FMul(w.line5_adjustedBasic, w.line3_p2Share)
       /\ w.line9_p1Theoretical
            = FMul(w.line8_p1ShareAdjustedBasic, w.line7_pctP2)
       /\ w.line9_p2Theoretical
            = FMul(w.line8_p2ShareAdjustedBasic, w.line7_pctP1)

\* Unequal nights and both parents with income: four different non-zero
\* lines 8 and 9.
C17_Witness ==
  /\ ComputedReturned
  /\ call.inputs.overnightsParent1 = F(100)
  /\ FGt(call.out.worksheet.line4_basic, Zero)
  /\ FGt(call.out.worksheet.line9_p1Theoretical, Zero)
  /\ FGt(call.out.worksheet.line9_p2Theoretical, Zero)
  /\ call.out.worksheet.line7_pctP1 # call.out.worksheet.line7_pctP2
  /\ call.out.worksheet.line8_p1ShareAdjustedBasic
       # call.out.worksheet.line8_p2ShareAdjustedBasic

\* Lines 6, 9, 10 and 11 of one parent in a computed worksheet.
ParentLines(w, parent) ==
  IF parent = "P1"
    THEN [overnights |-> w.line6_overnightsP1,
          theoretical |-> w.line9_p1Theoretical,
          adjustment |-> w.line10_p1Adjustment,
          afterAdjustment |-> w.line11_p1AfterAdjustment]
  ELSE [overnights |-> w.line6_overnightsP2,
        theoretical |-> w.line9_p2Theoretical,
        adjustment |-> w.line10_p2Adjustment,
        afterAdjustment |-> w.line11_p2AfterAdjustment]

InBand(n) == FGe(n, F(92)) /\ FLe(n, F(109))

C19_NoReductionBelow92 ==
  ComputedReturned =>
    \A parent \in {"P1", "P2"} :
      LET l == ParentLines(call.out.worksheet, parent) IN
      FLt(l.overnights, F(92)) =>
        /\ l.adjustment = Zero
        /\ l.afterAdjustment = l.theoretical

\* C20: for validated inputs (integer overnightsParent1 in 0..365), whenever
\* the shared pipeline reaches the computed outcome both parents' overnight
\* counts are at least 92 (92 <= overnightsP1 <= 273), so the condition of the
\* below-92 branch of the overnight adjustment, overnights < 92, is false for
\* both parents.
C20_Below92Unreachable ==
  (ComputedReturned /\ ValidOvernights(call.inputs.overnightsParent1)) =>
    /\ IntValue(call.inputs.overnightsParent1) \in 92..273
    /\ \A parent \in {"P1", "P2"} :
         LET l == ParentLines(call.out.worksheet, parent) IN
         /\ IsInteger(l.overnights)
         /\ IntValue(l.overnights) >= 92
         /\ ~FLt(l.overnights, F(92))

\* The computed outcome at the edge of the threshold: Parent 2 has exactly 92
\* nights.
C20_Witness ==
  /\ ComputedReturned
  /\ call.inputs.overnightsParent1 = F(273)
  /\ call.out.worksheet.line6_overnightsP2 = F(92)
  /\ FGt(call.out.worksheet.line9_p2Theoretical, Zero)
  /\ call.out.worksheet.line10_p2Adjustment
       = call.out.worksheet.line9_p2Theoretical

----------------------------------------------------------------------------
(* Worksheet B: the net amount and the cap *)

\* d = line15_p1Recommended - line15_p2Recommended of a computed worksheet.
NetDifference(w) == FSub(w.line15_p1Recommended, w.line15_p2Recommended)

\* C21: in the computed Worksheet B outcome, with d = line15_p1Recommended -
\* line15_p2Recommended, the payor is P1 iff d > 1e-6, P2 iff d < -1e-6 and
\* none otherwise; line16_beforeCap is |d| when there is a payor and 0 when
\* there is none.
C21_NetDetermination ==
  ComputedReturned =>
    LET w == call.out.worksheet
        d == NetDifference(w)
    IN /\ call.out.payor = "P1" <=> FGt(d, Eps)
       /\ call.out.payor = "P2" <=> FLt(d, FNeg(Eps))
       /\ call.out.payor = NullTag <=> (FLe(d, Eps) /\ FGe(d, FNeg(Eps)))
       /\ w.line16_beforeCap
            = IF call.out.payor = NullTag THEN Zero ELSE FAbs(d)

\* Parent 2's line 15 is the larger one: Parent 2 pays the difference.
C21_Witness ==
  /\ ComputedReturned
  /\ FGt(call.out.worksheet.line15_p1Recommended, Zero)
  /\ FLt(NetDifference(call.out.worksheet), FNeg(Eps))
  /\ call.out.payor = "P2"
  /\ call.out.worksheet.line16_beforeCap
       = FNeg(NetDifference(call.out.worksheet))

\* computeSharedFinal returned its computed outcome.
SharedFinalComputed ==
  /\ call.op = "computeSharedFinal"
  /\ ~IsErr(call.out)
  /\ call.out.kind = "computed"

CapNoteText == "Shared result capped (primary custody equivalent)."

\* C22: whenever a payor is identified computeSharedFinal records before =
\* the pre-cap amount, after = min(before, comparable primary amount) and the
\* primary amount (and nothing without a payor); calculateCase adds the cap
\* note and the worksheet key line16_cappedAmount exactly when before and
\* after differ by more than 1e-6, and neither otherwise.
C22_CapRecording ==
  /\ SharedFinalComputed =>
       IF call.out.payor = NullTag THEN call.out.capApplied = Null
       ELSE LET primary == computePrimaryFinal(
                             AsPrimary(call.inputs, Other(call.out.payor)),
                             schedule)
                cap == call.out.capApplied
            IN /\ cap # Null
               /\ cap.before = call.out.worksheet.line16_beforeCap
               /\ cap.primary = primary.line9_recommendedOrder
               /\ cap.after = FMin(cap.before, cap.primary)
               /\ call.out.recommended = cap.after
  /\ ComputedReturned =>
       LET w == call.out.worksheet
           changed == /\ call.out.payor # NullTag
                      /\ FGt(FAbs(FSub(w.line16_beforeCap,
                                       FAbs(Amount(call.out)))), Eps)
       IN /\ HasNote(call.out, CapNoteText) <=> changed
          /\ "line16_cappedAmount" \in DOMAIN w <=> changed
          /\ changed => w.line16_cappedAmount = FAbs(Amount(call.out))

\* A payor whose pre-cap amount is within the primary amount: the cap is
\* recorded but changes nothing, and calculateCase adds neither note nor key.
C22_Witness ==
  /\ ComputedReturned
  /\ call.out.payor # NullTag
  /\ FGt(call.out.worksheet.line16_beforeCap, Zero)
  /\ call.out.worksheet.line16_beforeCap = FAbs(Amount(call.out))
  /\ ~HasNote(call.out, CapNoteText)
  /\ "line16_cappedAmount" \notin DOMAIN call.out.worksheet

----------------------------------------------------------------------------
(* Order of the above-top test and the shared threshold *)

\* C23: a SHARED case whose combined AAI is above the top of the schedule and
\* whose overnights do not meet the threshold ends as advisory (advisory
\* aboveTopOfSchedule, path WorksheetB, no payor, amount 0) and is not
\* redirected; and every redirected outcome embeds a non-advisory primary
\* result.
C23_AboveTopBeforeThreshold ==
  /\ ( /\ CaseReturned
       /\ call.inputs.custodyType = "SHARED"
       /\ AboveTop(call.inputs, schedule)
       /\ ~meetsSharedThreshold(call.inputs.overnightsParent1) )
     => /\ call.out.advisory = "aboveTopOfSchedule"
        /\ call.out.path = "WorksheetB"
        /\ call.out.payor = NullTag
        /\ Amount(call.out) = Zero
        /\ ~HasNote(call.out, RedirectNote("P1").text)
  /\ ( /\ call.op = "computeSharedFinal"
       /\ ~IsErr(call.out)
       /\ call.out.kind = "redirected" )
     => /\ call.out.primaryResult.advisory = NullTag
        /\ IsNum(call.out.primaryResult.line9_recommendedOrder)
        /\ ~AboveTop(call.inputs, schedule)
  /\ (CaseReturned /\ call.out.advisory = "redirectedToWorksheetA")
     => /\ call.out.payor # NullTag
        /\ "line9_recommendedOrder" \in DOMAIN call.out.worksheet

\* 80 nights and a combined income above the top row: advisory, on
\* Worksheet B.
C23_Witness ==
  /\ CaseReturned
  /\ call.inputs.custodyType = "SHARED"
  /\ call.inputs.overnightsParent1 = F(80)
  /\ AboveTop(call.inputs, schedule)
  /\ call.out.advisory = "aboveTopOfSchedule"
  /\ call.out.path = "WorksheetB"

----------------------------------------------------------------------------
(* Income shares *)

BasicReturned == call.op = "computeBasic" /\ ~IsErr(call.out)

\* C24: when combined AAI is exactly zero computeBasic returns
\* p1Share = p2Share = 0.5; for every other combined AAI, negative values
\* included, p1Share is p1AAI / combinedAAI, unclamped.
C24_ZeroIncomeFallback ==
  BasicReturned =>
    /\ call.out.combinedAAI = FAdd(call.out.p1AAI, call.out.p2AAI)
    /\ call.out.combinedAAI = Zero
         => call.out.p1Share = Half /\ call.out.p2Share = Half
    /\ call.out.combinedAAI # Zero
         => call.out.p1Share = FDiv(call.out.p1AAI, call.out.combinedAAI)
    /\ ( /\ FLt(call.out.p1AAI, Zero)
         /\ FGt(call.out.combinedAAI, Zero) )
         => FLt(call.out.p1Share, Zero)

\* Two parents without income: the shares are one half each.
C24_Witness ==
  /\ BasicReturned
  /\ call.inputs.parent1.actualMonthly = Zero
  /\ call.inputs.parent2.actualMonthly = Zero
  /\ call.out.combinedAAI = Zero
  /\ call.out.p1Share = Half
  /\ call.out.p2Share = Half

----------------------------------------------------------------------------
(* The direct-pay consistency note *)

DirectPayNoteText == "Note: direct-pay sum != add-ons total."

\* |p1Direct + p2Direct - addOnsTotal| > 1e-6
DirectPayMismatch(p1Direct, p2Direct, addOnsTotal) ==
  FGt(FAbs(FSub(FAdd(p1Direct, p2Direct), addOnsTotal)), Eps)

\* The direct payments of the returned worksheet, under the keys of its path.
DirectPayOf(out) ==
  IF out.path = "WorksheetA"
    THEN [p1 |-> out.worksheet.line7_p1DirectPay,
          p2 |-> out.worksheet.line7_p2DirectPay]
  ELSE [p1 |-> out.worksheet.line15_p1DirectPay,
        p2 |-> out.worksheet.line15_p2DirectPay]

\* Each parent's recommended amount is max(0, gross - direct pay) on the
\* worksheet of either path.
RecommendedFollowsLines(out) ==
  LET w == out.worksheet IN
  IF out.path = "WorksheetA"
    THEN /\ w.line8_p1Recommended
              = FMax(Zero, FSub(w.line6_p1Obligation, w.line7_p1DirectPay))
         /\ w.line8_p2Recommended
              = FMax(Zero, FSub(w.line6_p2Obligation, w.line7_p2DirectPay))
         /\ out.payor = Other(call.inputs.primaryCustodian)
         /\ FAbs(Amount(out)) = w[Line8Key(out.payor)]
  ELSE /\ w.line15_p1Recommended
            = FMax(Zero, FSub(w.line14_p1Total, w.line15_p1DirectPay))
       /\ w.line15_p2Recommended
            = FMax(Zero, FSub(w.line14_p2Total, w.line15_p2DirectPay))
       /\ FLe(FAbs(Amount(out)), FAbs(NetDifference(w)))

----------------------------------------------------------------------------
(* The returned worksheet map *)

\* C26: in every branch of calculateCase every key of the returned worksheet
\* map has a numeric value; a line item whose value is null is left out of the
\* map, as the basic obligation and the lines after it are on the advisory
\* Worksheet A outcome.
C26_WorksheetHasNoNulls ==
  CaseReturned =>
    /\ \A k \in DOMAIN call.out.worksheet : IsNum(call.out.worksheet[k])
    /\ {"line2_p1AAI", "line2_p2AAI", "line3_p1Share", "line3_p2Share"}
         \subseteq DOMAIN call.out.worksheet
    /\ ( /\ call.out.path = "WorksheetA"
         /\ call.out.advisory = "aboveTopOfSchedule" )
       => DOMAIN call.out.worksheet \cap {"line4_basic",
            "line5_totalObligation", "line9_recommendedOrder"} = {}

\* A PRIMARY case above the top of the schedule: the incomes and shares are
\* in the map, the basic obligation is not.
C26_Witness ==
  /\ PrimaryCaseReturned
  /\ call.out.advisory = "aboveTopOfSchedule"
  /\ "line2_p1AAI" \in DOMAIN call.out.worksheet
  /\ "line4_basic" \notin DOMAIN call.out.worksheet

----------------------------------------------------------------------------
(* The custodian of the cap's primary scenario *)

\* The result was capped: the cap changed the amount, and the note says so.
CappedReturned ==
  /\ ComputedReturned
  /\ ValidOvernights(call.inputs.overnightsParent1)
  /\ HasNote(call.out, CapNoteText)

----------------------------------------------------------------------------
(* What the result does not depend on *)

WithCustodian(inputs, custodian) ==
  [inputs EXCEPT !.primaryCustodian = custodian]

WithOvernights(inputs, overnights) ==
  [inputs EXCEPT !.overnightsParent1 = overnights]

----------------------------------------------------------------------------
(* Exchanging the two parents *)

\* The case with the parents exchanged: the income records, the direct-pay
\* records, the overnights and the designated custodian.
Exchanged(inputs) ==
  [inputs EXCEPT !.parent1 = inputs.parent2,
                 !.parent2 = inputs.parent1,
                 !.directPay = [parent1 |-> inputs.directPay.parent2,
                                parent2 |-> inputs.directPay.parent1],
                 !.overnightsParent1 = FSub(F(NightsPerYear), @),
                 !.primaryCustodian = Other(@)]

ExchangedParent(payor) == IF payor = NullTag THEN NullTag ELSE Other(payor)

\* calculateCase returned for a case with a validated overnight count.
ValidCaseReturned ==
  CaseReturned /\ ValidOvernights(call.inputs.overnightsParent1)

\* C29 (as stated): exchanging the two parents yields a result on the same
\* path with the same advisory tag, whose payor is the exchanged parent and
\* whose signed amount is the negation of the original.
C29_ExchangeNegatesAmount ==
  ValidCaseReturned =>
    LET r == calculateCase(Exchanged(call.inputs), schedule)
    IN /\ ~IsErr(r)
       /\ r.path = call.out.path
       /\ r.advisory = call.out.advisory
       /\ r.payor = ExchangedParent(call.out.payor)
       /\ Amount(r) = FNeg(Amount(call.out))

\* The unit roundoff of the arithmetic.
UnitRoundoff == Round(1, -MantissaBits)

\* The size of the figures a result's amount is computed from: the amount to
\* divide, times 1 + |p1Share| + |p2Share|, plus both direct-pay totals.
ResultScale(out) ==
  LET w == out.worksheet
      shares == FAdd(One, FAdd(FAbs(w.line3_p1Share), FAbs(w.line3_p2Share)))
  IN IF out.path = "WorksheetA"
       THEN FAdd(FMul(w.line5_totalObligation, shares),
                 FAdd(w.line7_p1DirectPay, w.line7_p2DirectPay))
     ELSE FAdd(FMul(FAdd(w.line5_adjustedBasic, w.line13_totalAddOns),
                    shares),
               FAdd(w.line15_p1DirectPay, w.line15_p2DirectPay))

\* 1e-6 + 64 x unit roundoff x scale
ExchangeTolerance(out) ==
  FAdd(Eps, FMul(FMul(F(64), UnitRoundoff), ResultScale(out)))

\* C29 (amended): exchanging the two parents yields a result on the same
\* path with the same advisory tag. On the above-top outcomes both results
\* have no payor and amount 0. Otherwise the signed amounts are negations of
\* each other up to rounding (exactly so when the incomes are equal and the
\* shares are one half); on Worksheet A the payor is the exchanged parent,
\* and on Worksheet B it is whenever the amount exceeds the tolerance.
C29_ExchangeNegatesWithinRounding ==
  ValidCaseReturned =>
    LET r == calculateCase(Exchanged(call.inputs), schedule)
    IN /\ ~IsErr(r)
       /\ r.path = call.out.path
       /\ r.advisory = call.out.advisory
       /\ IF call.out.advisory = "aboveTopOfSchedule"
            THEN /\ r.payor = NullTag /\ call.out.payor = NullTag
                 /\ Amount(r) = Zero /\ Amount(call.out) = Zero
          ELSE /\ FLe(FAbs(FAdd(Amount(r), Amount(call.out))),
                      ExchangeTolerance(call.out))
               /\ ( /\ call.out.worksheet.line3_p1Share = Half
                    /\ call.out.worksheet.line3_p2Share = Half )
                  => /\ Amount(r) = FNeg(Amount(call.out))
                     /\ r.payor = ExchangedParent(call.out.payor)
               /\ call.out.path = "WorksheetA"
                    => r.payor = ExchangedParent(call.out.payor)
               /\ FGt(FAbs(Amount(call.out)), ExchangeTolerance(call.out))
                    => r.payor = ExchangedParent(call.out.payor)

\* Incomes 10 and 20 on Worksheet A: the payor is exchanged and the two
\* amounts, one from total x share and one from the remainder, differ in the
\* last place.
C29_Witness ==
  /\ ValidCaseReturned
  /\ call.out.path = "WorksheetA"
  /\ call.out.payor # NullTag
  /\ Amount(call.out) # Zero
  /\ LET r == calculateCase(Exchanged(call.inputs), schedule)
     IN /\ ~IsErr(r)
        /\ r.payor = ExchangedParent(call.out.payor)
        /\ Amount(r) # FNeg(Amount(call.out))
        /\ FLe(FAbs(FAdd(Amount(r), Amount(call.out))),
               ExchangeTolerance(call.out))

----------------------------------------------------------------------------
(* The wizard's steps *)

\* The server answered a POST of the wizard form.
Posted == call # Idle /\ call.op = "POST"

\* The step the POST named, as the server read it.
PostedFrom == parseStep(call.currentStep)

\* C30: whatever currentStep a request names and whatever navigate actions
\* (back, next, calculate, reset) follow, the rendered step is a number from
\* 1 to 7, and one of the steps 1, ..., 7 unless the request named a
\* fractional step; back at step 1 stays at 1, next at step 7 stays at 7,
\* reset yields step 1 with the default form, and calculateCase is invoked
\* only when the resulting step is step 7 and the form passed the schema.
C30_WizardStepBounds ==
  /\ call # Idle =>
       /\ IsNum(call.step)
       /\ FLe(One, call.step) /\ FLe(call.step, F(TOTAL_STEPS))
       /\ ( \/ call.currentStep \notin DOMAIN Decimals
            \/ wholeNumber(NumberOf(call.currentStep)) )
          => \E k \in 1..TOTAL_STEPS : call.step = F(k)
       /\ call.calculated # Null =>
            /\ call.op = "POST"
            /\ call.step = F(TOTAL_STEPS)
            /\ schemaIssues(call.calculated) = <<>>
            /\ call.calculated = candidateOf(call.form)
       /\ call.result # Null => call.calculated # Null
  /\ Posted =>
       /\ (call.navigate = "back" /\ PostedFrom = One) => call.step = One
       /\ (call.navigate = "next" /\ PostedFrom = F(TOTAL_STEPS))
            => call.step = F(TOTAL_STEPS)
       /\ call.navigate = "calculate" => call.step = F(TOTAL_STEPS)
       /\ call.navigate = "reset"
            => /\ call.step = One
               /\ call.form = defaultForm
               /\ call.result = Null

\* Next pressed on the last step after the custody answers were edited: the
\* page is still step 7 and shows a Worksheet B result.
C30_Witness ==
  /\ Posted
  /\ call.navigate = "next"
  /\ PostedFrom = F(TOTAL_STEPS)
  /\ call.step = F(TOTAL_STEPS)
  /\ call.form.custodyType = "SHARED"
  /\ call.calculated # Null
  /\ call.result # Null
  /\ call.result.path = "WorksheetB"

====
